---- MODULE Spec2Model ----
(***************************************************************************)
(* OpenClaw dashboard client (src/app.js): the state store, the refresh    *)
(* orchestrator, the action dispatchers, the settings form and the usage   *)
(* event filter, as a state machine over the browser's event loop.  Every  *)
(* action is one run-to-completion task of the event loop: a handler runs  *)
(* from its start, or from the point where an awaited fetch settles, up to *)
(* its next await or its end.                                              *)
(***************************************************************************)
EXTENDS Integers, Sequences, FiniteSets, TLC

\* ------------------------------------------------------------------ bounds
MaxCycles == 2        \* refreshAll invocations in one run
MaxFaults == 1        \* responses other than the well-formed success
MaxVersion == 1       \* distinct backend snapshots a response may carry
MaxInFlight == 9      \* fetches in flight when a timer-driven refresh starts
MaxCalls == 1         \* dispatcher invocations in one run
MaxTicks == 2         \* callbacks of the refresh timer in one run

\* --------------------------------------------------------- program constants
ActivityLimit == 20   \* slice(0, 20) in loadActivity
DefaultScheduleHour == 23
NaN == -1000          \* stands for the JavaScript number NaN
ActiveMinutes == 5    \* `ageMinutes < 5` in renderAgents
MinuteMs == 60000     \* milliseconds in a minute
HourMs == 1000 * 60 * 60
DayMs == 24 * HourMs  \* what setDate(getDate() + 1) adds to a local time

Versions == 1..MaxVersion

\* ------------------------------------------------------------- sequences
SeqFilter(s, Test(_)) == SelectSeq(s, Test)

Range(s) == {s[i] : i \in DOMAIN s}

Take(s, n) == IF Len(s) <= n THEN s ELSE SubSeq(s, 1, n)

\* ------------------------------------------------------ backend snapshots
\* A session as the gateway reports it.  key is the list of the
\* colon-delimited segments of the session key; agentId "" and updatedAt 0
\* stand for an absent field (both are falsy in the code's || tests).
Session(k, a, u, age, tok) ==
  [key |-> k, agentId |-> a, updatedAt |-> u, ageMs |-> age, totalTokens |-> tok]

\* The session lists of the snapshots.  Snapshot 3 has a key of the form
\* agentId:instance, two sessions updated at the same time and a session
\* with neither key nor updatedAt; 4 has more sessions than the activity
\* feed shows; 5 has more still, updated in pairs at the same time; 6 has
\* sessions without updatedAt only.
SessionData(n) ==
  CASE n = 3 -> << Session(<<"blog-publisher", "i1">>, "blog-publisher", 30, 1000, 5),
                   Session(<<"agent", "main", "s5">>, "main", 30, 1000, 1),
                   Session(<<>>, "", 0, 400000, 0) >>
    [] n = 4 -> [i \in 1..(ActivityLimit + 1) |->
                   Session(<<"agent", "main", "s1">>, "main", 100 + i, 400000, i)]
    [] n = 5 -> [i \in 1..(ActivityLimit + 2) |->
                   Session(<<"agent", "main", "s1">>, "main", 100 + (i \div 2), 400000, i)]
    [] n = 6 -> << Session(<<"s6">>, "", 0, 400000, 1),
                   Session(<<"s7">>, "", 0, 400000, 2) >>
    [] n % 2 = 1 /\ n \notin {3, 5} ->
                << Session(<<"agent", "main", "s1">>, "main", 10, 1000, 5),
                   Session(<<"agent", "blog-publisher", "s2">>, "", 30, 400000, 0) >>
    [] OTHER -> << Session(<<"s3">>, "", 0, 0, 7),
                   Session(<<"agent", "main", "s1">>, "main", 20 + n, 2000, 9),
                   Session(<<"agent", "inbox-checker", "s4">>, "inbox-checker", 20 + n, 10, 1) >>

CronData(n) == << [id |-> "job1", enabled |-> TRUE, nextRunAtMs |-> 100 * n] >>

WorkflowData(n) == << [id |-> "wf1", active |-> (n % 2 = 1)] >>

\* ---------------------------------------------------------------- strings
\* A string is the sequence of its characters, so that trim, split, join,
\* toLowerCase, includes and parseInt are computed as JavaScript computes them.
IsSpace(ch) == ch \in {" ", "\n", "\t"}

RECURSIVE TrimLeft(_)
TrimLeft(s) == IF s # <<>> /\ IsSpace(Head(s)) THEN TrimLeft(Tail(s)) ELSE s

RECURSIVE TrimRight(_)
TrimRight(s) ==
  IF s # <<>> /\ IsSpace(s[Len(s)]) THEN TrimRight(SubSeq(s, 1, Len(s) - 1)) ELSE s

\* String.prototype.trim
Trim(s) == TrimRight(TrimLeft(s))

\* String.prototype.split('\n')
RECURSIVE SplitLines(_)
SplitLines(s) ==
  IF \E i \in DOMAIN s : s[i] = "\n"
  THEN LET i == CHOOSE j \in DOMAIN s : s[j] = "\n" /\ \A k \in 1..(j - 1) : s[k] # "\n"
       IN  <<SubSeq(s, 1, i - 1)>> \o SplitLines(SubSeq(s, i + 1, Len(s)))
  ELSE <<s>>

\* Array.prototype.join('\n')
RECURSIVE JoinLines(_)
JoinLines(ls) ==
  IF ls = <<>> THEN <<>>
  ELSE IF Len(ls) = 1 THEN ls[1]
  ELSE ls[1] \o <<"\n">> \o JoinLines(Tail(ls))

RECURSIVE MapTrim(_)
MapTrim(ls) == IF ls = <<>> THEN <<>> ELSE <<Trim(Head(ls))>> \o MapTrim(Tail(ls))

NonEmpty(s) == s # <<>>

LowerChar(ch) ==
  CASE ch = "A" -> "a" [] ch = "E" -> "e" [] ch = "G" -> "g" [] ch = "I" -> "i"
    [] ch = "N" -> "n" [] ch = "O" -> "o" [] ch = "P" -> "p" [] ch = "R" -> "r"
    [] OTHER -> ch

\* String.prototype.toLowerCase
ToLowerCase(s) == [i \in DOMAIN s |-> LowerChar(s[i])]

\* String.prototype.includes
Includes(s, q) ==
  \E i \in 0..(Len(s) - Len(q)) : \A j \in 1..Len(q) : s[i + j] = q[j]

DigitChars == <<"0", "1", "2", "3", "4", "5", "6", "7", "8", "9">>

IsDigit(ch) == \E d \in 1..10 : DigitChars[d] = ch

DigitVal(ch) == (CHOOSE d \in 1..10 : DigitChars[d] = ch) - 1

RECURSIVE DigitsValue(_, _)
DigitsValue(s, acc) ==
  IF s # <<>> /\ IsDigit(Head(s)) THEN DigitsValue(Tail(s), 10 * acc + DigitVal(Head(s)))
  ELSE acc

\* parseInt(string): leading white space, an optional sign, then the longest
\* run of decimal digits; NaN when there is no digit.
ParseInt(s) ==
  LET t == TrimLeft(s)
      neg == t # <<>> /\ Head(t) = "-"
      u == IF t # <<>> /\ Head(t) \in {"-", "+"} THEN Tail(t) ELSE t
  IN  IF u = <<>> \/ ~IsDigit(Head(u)) THEN NaN
      ELSE IF neg THEN 0 - DigitsValue(u, 0) ELSE DigitsValue(u, 0)

RECURSIVE NatStr(_)
NatStr(n) == IF n < 10 THEN <<DigitChars[n + 1]>> ELSE NatStr(n \div 10) \o <<DigitChars[(n % 10) + 1]>>

\* String(number), as an input element's value setter converts a number
NumStr(n) ==
  IF n = NaN THEN <<"N", "a", "N">>
  ELSE IF n < 0 THEN <<"-">> \o NatStr(0 - n) ELSE NatStr(n)

\* JavaScript truthiness of a number
Truthy(n) == n # 0 /\ n # NaN

\* ------------------------------------------------------------------- JSON
\* A JSON text is a string whose elements are lexemes: the punctuation marks,
\* the literals, string and number lexemes, and white space characters.
StrLexemes == {"\"\"", "\"a\"", "\"k\"", "\"m\""}

NumLexemes == {"0", "1", "1.0"}

\* The number a lexeme denotes, in the form JSON.stringify writes it.
CanonNum(lex) == IF lex = "1.0" THEN "1" ELSE lex

\* A JSON value: t is its type; v the lexeme of a string or number; keys and
\* items the members of an object in insertion order, items alone those of
\* an array.
J(t, v, keys, items) == [t |-> t, v |-> v, keys |-> keys, items |-> items]

JNull == J("null", "", <<>>, <<>>)

JBool(b) == J(IF b THEN "true" ELSE "false", "", <<>>, <<>>)

JNum(lex) == J("num", CanonNum(lex), <<>>, <<>>)

JStr(lex) == J("str", lex, <<>>, <<>>)

JArr(items) == J("arr", "", <<>>, items)

JObj(keys, items) == J("obj", "", keys, items)

EmptyObject == JObj(<<>>, <<>>)

\* JavaScript truthiness of a parsed JSON value
JTruthy(j) ==
  ~(\/ j.t \in {"null", "false"}
    \/ (j.t = "num" /\ j.v = "0")
    \/ (j.t = "str" /\ j.v = "\"\""))

ParseFail == [ok |-> FALSE, val |-> JNull, next |-> 0]

ParseOk(val, next) == [ok |-> TRUE, val |-> val, next |-> next]

RECURSIVE SkipWs(_, _)
SkipWs(ts, i) == IF i <= Len(ts) /\ IsSpace(ts[i]) THEN SkipWs(ts, i + 1) ELSE i

\* obj[key] = value on an object under construction: a repeated key keeps
\* its first position and takes the last value.
PutMember(keys, items, k, val) ==
  IF \E i \in DOMAIN keys : keys[i] = k
  THEN [keys |-> keys,
        items |-> [i \in DOMAIN items |-> IF keys[i] = k THEN val ELSE items[i]]]
  ELSE [keys |-> Append(keys, k), items |-> Append(items, val)]

RECURSIVE ParseValue(_, _)
RECURSIVE ParseElems(_, _, _)
RECURSIVE ParseMembers(_, _, _, _)

\* the elements of an array after "[" or ",": value, then "," or "]"
ParseElems(ts, i, acc) ==
  LET r == ParseValue(ts, i)
      j == SkipWs(ts, r.next)
  IN  IF ~r.ok \/ j > Len(ts) THEN ParseFail
      ELSE IF ts[j] = "]" THEN ParseOk(JArr(Append(acc, r.val)), j + 1)
      ELSE IF ts[j] = "," THEN ParseElems(ts, j + 1, Append(acc, r.val))
      ELSE ParseFail

\* the members of an object after "{" or ",": key, ":", value, then "," or "}"
ParseMembers(ts, i, keys, items) ==
  LET k == SkipWs(ts, i)
      c == SkipWs(ts, k + 1)
  IN  IF k > Len(ts) \/ ts[k] \notin StrLexemes THEN ParseFail
      ELSE IF c > Len(ts) \/ ts[c] # ":" THEN ParseFail
      ELSE LET r == ParseValue(ts, c + 1)
               j == SkipWs(ts, r.next)
               m == PutMember(keys, items, ts[k], r.val)
           IN  IF ~r.ok \/ j > Len(ts) THEN ParseFail
               ELSE IF ts[j] = "}" THEN ParseOk(JObj(m.keys, m.items), j + 1)
               ELSE IF ts[j] = "," THEN ParseMembers(ts, j + 1, m.keys, m.items)
               ELSE ParseFail

ParseValue(ts, i) ==
  LET p == SkipWs(ts, i)
  IN  IF p > Len(ts) THEN ParseFail
      ELSE LET tok == ts[p]
               q == SkipWs(ts, p + 1)
           IN  CASE tok = "null" -> ParseOk(JNull, p + 1)
                 [] tok = "true" -> ParseOk(JBool(TRUE), p + 1)
                 [] tok = "false" -> ParseOk(JBool(FALSE), p + 1)
                 [] tok \in NumLexemes -> ParseOk(JNum(tok), p + 1)
                 [] tok \in StrLexemes -> ParseOk(JStr(tok), p + 1)
                 [] tok = "[" ->
                      IF q <= Len(ts) /\ ts[q] = "]" THEN ParseOk(JArr(<<>>), q + 1)
                      ELSE ParseElems(ts, p + 1, <<>>)
                 [] tok = "{" ->
                      IF q <= Len(ts) /\ ts[q] = "}" THEN ParseOk(EmptyObject, q + 1)
                      ELSE ParseMembers(ts, p + 1, <<>>, <<>>)
                 [] OTHER -> ParseFail

\* JSON.parse(text): ok is FALSE where JSON.parse throws a SyntaxError.
JSONParse(ts) ==
  LET r == ParseValue(ts, 1)
  IN  IF r.ok /\ SkipWs(ts, r.next) > Len(ts) THEN r ELSE ParseFail

Indent(n) == [i \in 1..n |-> " "]

RECURSIVE Stringify(_, _, _)
RECURSIVE StringifyItems(_, _, _, _, _)

\* the members of a non-empty array or object, from the i-th on
StringifyItems(j, i, gap, depth, isObj) ==
  LET lead == IF gap = 0 THEN <<>> ELSE <<"\n">> \o Indent(gap * (depth + 1))
      name == IF isObj THEN <<j.keys[i], ":">> \o (IF gap = 0 THEN <<>> ELSE <<" ">>)
              ELSE <<>>
      this == lead \o name \o Stringify(j.items[i], gap, depth + 1)
  IN  IF i = Len(j.items) THEN this
      ELSE this \o <<",">> \o StringifyItems(j, i + 1, gap, depth, isObj)

\* JSON.stringify(value, null, gap) at nesting depth `depth`; gap 0 is the
\* compact form of JSON.stringify(value).
Stringify(j, gap, depth) ==
  LET close == IF gap = 0 THEN <<>> ELSE <<"\n">> \o Indent(gap * depth)
  IN  CASE j.t \in {"null", "true", "false"} -> <<j.t>>
        [] j.t \in {"num", "str"} -> <<j.v>>
        [] j.t = "arr" ->
             IF j.items = <<>> THEN <<"[", "]">>
             ELSE <<"[">> \o StringifyItems(j, 1, gap, depth, FALSE) \o close \o <<"]">>
        [] OTHER ->
             IF j.items = <<>> THEN <<"{", "}">>
             ELSE <<"{">> \o StringifyItems(j, 1, gap, depth, TRUE) \o close \o <<"}">>

JSONStringify(j) == Stringify(j, 0, 0)

PrettyGap == 2

JSONStringifyPretty(j) == Stringify(j, PrettyGap, 0)

\* ------------------------------------------------------------ usage data
OpenAI == <<"O", "p", "e", "n", "A", "I">>

Gateway == <<"G", "a", "t", "e", "w", "a", "y">>

Groq == <<"G", "r", "o", "q">>

All == <<"a", "l", "l">>

ErrWord == <<"E", "R", "R">>

ModelA == <<"m", "a">>

ModelB == <<"m", "b">>

\* A usage event; error <<>> stands for an event without an error field.
Event(ts, p, m, d, err) ==
  [timestamp |-> ts, provider |-> p, model |-> m, duration_s |-> d, error |-> err]

Quoted(str) == <<"\"">> \o str \o <<"\"">>

Member(k, text) == Quoted(k) \o <<":">> \o text

\* JSON.stringify(event), character by character
StringifyEvent(e) ==
  <<"{">> \o Member(<<"t", "i", "m", "e", "s", "t", "a", "m", "p">>, NumStr(e.timestamp))
    \o <<",">> \o Member(<<"p", "r", "o", "v", "i", "d", "e", "r">>, Quoted(e.provider))
    \o <<",">> \o Member(<<"m", "o", "d", "e", "l">>, Quoted(e.model))
    \o <<",">> \o Member(<<"d", "u", "r", "a", "t", "i", "o", "n", "_", "s">>, NumStr(e.duration_s))
    \o (IF e.error = <<>> THEN <<>>
        ELSE <<",">> \o Member(<<"e", "r", "r", "o", "r">>, Quoted(e.error)))
    \o <<"}">>

\* One provider of a usage summary with the request counts of its models
\* (requests 0 also stands for a model without a requests field).
Provider(name, models) == [name |-> name, models |-> models]

ModelUse(name, requests) == [name |-> name, requests |-> requests]

\* The summary object: its provider keys in insertion order, and the value
\* of its total_requests key (0 also when the key is absent).
Summary(total, providers) == [total_requests |-> total, providers |-> providers]

\* A value of the variable usageData: JSON null, or an object that has or
\* lacks the keys summary and events.
Usage(isNull, hasSummary, summary, hasEvents, events) ==
  [null |-> isNull, hasSummary |-> hasSummary, summary |-> summary,
   hasEvents |-> hasEvents, events |-> events]

EmptySummary == Summary(0, <<>>)

UsageNull == Usage(TRUE, FALSE, EmptySummary, FALSE, <<>>)

UsageNoKeys == Usage(FALSE, FALSE, EmptySummary, FALSE, <<>>)

UsageInitial == Usage(FALSE, TRUE, EmptySummary, TRUE, <<>>)

UsagePayload(n) ==
  IF n = 4
  THEN \* no total_requests key, a model without requests, a provider
       \* without models, Gateway listed last
       Usage(FALSE, TRUE,
             Summary(0, << Provider(OpenAI, <<ModelUse(ModelA, 10), ModelUse(ModelB, 0),
                                              ModelUse(ModelA, 7)>>),
                           Provider(Gateway, <<>>) >>),
             TRUE,
             << Event(5, OpenAI, ModelB, 1, <<>>) >>)
  ELSE IF n = 5
  THEN \* totals 30, 1, 7 and 30: a low one, one that does not divide, a tie
       Usage(FALSE, TRUE,
             Summary(68, << Provider(OpenAI, <<ModelUse(ModelA, 30)>>),
                            Provider(Gateway, <<ModelUse(ModelA, 1)>>),
                            Provider(Groq, <<ModelUse(ModelA, 3), ModelUse(ModelB, 4)>>),
                            Provider(All, <<ModelUse(ModelB, 30)>>) >>),
             TRUE,
             << Event(6, OpenAI, ModelA, 1, <<>>) >>)
  ELSE IF n = 6
  THEN \* no request counted for any provider
       Usage(FALSE, TRUE,
             Summary(0, << Provider(Gateway, <<ModelUse(ModelA, 0)>>),
                           Provider(OpenAI, <<>>) >>),
             TRUE,
             <<>>)
  ELSE IF n % 2 = 1
  THEN Usage(FALSE, TRUE,
             Summary(15, << Provider(Gateway, <<ModelUse(ModelA, 5)>>),
                            Provider(OpenAI, <<ModelUse(ModelA, 10)>>) >>),
             TRUE,
             << Event(1, OpenAI, ModelA, 1, <<>>),
                Event(2, Gateway, ModelA, 2, ErrWord),
                Event(3, OpenAI, ModelA, 1, ErrWord) >>)
  ELSE Usage(FALSE, TRUE,
             Summary(n, << Provider(Gateway, <<ModelUse(ModelA, n)>>) >>),
             TRUE,
             << Event(4, Gateway, ModelA, 3, <<>>) >>)

\* A value of the variable ollamaData.
Ollama(isNull, hasLocal, online, models, hasCloud, sessionUsage) ==
  [null |-> isNull, hasLocal |-> hasLocal, online |-> online, models |-> models,
   hasCloud |-> hasCloud, session_usage |-> sessionUsage]

OllamaNull == Ollama(TRUE, FALSE, FALSE, <<>>, FALSE, 0)

OllamaNoKeys == Ollama(FALSE, FALSE, FALSE, <<>>, FALSE, 0)

OllamaInitial == Ollama(FALSE, TRUE, FALSE, <<>>, TRUE, 0)

OllamaPayload(n) == Ollama(FALSE, TRUE, n % 2 = 1, <<"llama">>, TRUE, 10 * n)

\* --------------------------------------------------------------- settings
\* The scheduleHour member of a stored settings object: absent, JSON null,
\* a number, or a string.
Hour(t, n, str) == [t |-> t, n |-> n, s |-> str]

HourUndefined == Hour("undefined", 0, <<>>)

HourNull == Hour("null", 0, <<>>)

HourNum(n) == Hour("num", n, <<>>)

HourStr(str) == Hour("str", 0, str)

\* parseInt(s.scheduleHour)
ParseIntHour(h) ==
  CASE h.t = "num" -> h.n
    [] h.t = "str" -> ParseInt(h.s)
    [] OTHER -> NaN

\* the string an input element holds after `value = s.scheduleHour`
HourInputValue(h) ==
  CASE h.t = "num" -> NumStr(h.n)
    [] h.t = "str" -> h.s
    [] OTHER -> <<>>

\* A settings object; an empty string also stands for an absent string
\* member, hasProviders FALSE for an absent providers member.
Settings(key, url, pub, hour, notes, rss, hasProviders, providers) ==
  [hashnode_api_key |-> key, hashnode_url |-> url, publication_id |-> pub,
   scheduleHour |-> hour, notes_path |-> notes, rss_feeds |-> rss,
   hasProviders |-> hasProviders, providers |-> providers]

NoSettings == Settings(<<>>, <<>>, <<>>, HourUndefined, <<>>, <<>>, FALSE, JNull)

\* The settings form: the value of each input element.
Form(key, url, pub, hour, notes, rss, providers) ==
  [key |-> key, url |-> url, pub |-> pub, hour |-> hour, notes |-> notes,
   rss |-> rss, providers |-> providers]

EmptyForm == Form(<<>>, <<>>, <<>>, <<>>, <<>>, <<>>, <<>>)

\* -------------------------------------------------------------- the state
VARIABLES
  state,           \* the state store (app.js: let state)
  usageData,       \* app.js: let usageData
  filteredEvents,  \* app.js: let filteredEvents
  ollamaData,      \* app.js: let ollamaData
  CONFIG,          \* the mutable part of CONFIG: scheduleHour
  panels,          \* what each DOM region written by a loader shows
  controls,        \* auto-refresh box, provider dropdown, search box, hide-internal box
  form,            \* the settings form
  toasts,          \* the notifications shown so far, oldest first
  net,             \* the fetches in flight
  cycles,          \* the refreshAll invocations, oldest first
  calls,           \* the dispatcher invocations, oldest first
  timers,          \* the dispatcher invocations with a pending setTimeout(loadSessions)
  phase,           \* where init is
  unhandled,       \* the functions whose rejection or exception nothing handled
  faults,          \* the responses so far that were not the well-formed success
  store,           \* the settings object the settings store holds
  clock,           \* the local time of day, in milliseconds, that `new Date()` gives
  dom,             \* what the view-model renderers wrote: agent cards, countdown, usage
  ticks            \* the callbacks of the refresh timer run so far

vars == << state, usageData, filteredEvents, ollamaData, CONFIG, panels, controls,
           form, toasts, net, cycles, calls, timers, phase, unhandled, faults, store,
           clock, dom, ticks >>

\* the values Date.now() may return
ClockValues == {50}

Panels == {"sessions-list", "cron-jobs-list", "activity-feed", "blog-posts",
           "learning-notes", "schedule-history", "usage-providers-grid",
           "ollama-local-status", "gateway-status", "n8n-workflows"}

\* the local time of day at which the page is loaded
ClockStart == 12 * HourMs

\* the tabs of the agent-details modal: each has a button with that data-tab
\* and a pane agent-tab-<tab>
AgentTabs == {"overview", "notes", "memory", "logs", "sessions"}

\* the panes of the modal that are filled on demand
ModalPanels == {"notes", "memory", "logs", "sessions"}

\* the agent-details modal while it was never opened: detailsId is the agent
\* viewAgentDetails was last called for (agentModalCurrentId, and the text of
\* #agent-details-id), "" for null
ModalInitial ==
  [detailsId |-> "", active |-> FALSE, shownTabs |-> {}, activeTabs |-> {},
   panes |-> [p \in ModalPanels |-> "initial"]]

\* the regions the view-model renderers fill, before any of them ran
DomInitial ==
  [activeAgents |-> {}, countdown |-> <<>>, providersCount |-> 0,
   providerTotals |-> <<>>, barHeights |-> <<>>, modal |-> ModalInitial]

\* the page when DOMContentLoaded fires: the script's declarations ran
PageLoaded ==
  /\ state = [sessions |-> <<>>, cronJobs |-> <<>>, n8nWorkflows |-> <<>>,
              activity |-> <<>>, gatewayOnline |-> "false", n8nOnline |-> "false"]
  /\ usageData = UsageInitial
  /\ filteredEvents = <<>>
  /\ ollamaData = OllamaInitial
  /\ CONFIG = [scheduleHour |-> DefaultScheduleHour]
  /\ panels = [p \in Panels |-> "initial"]
  /\ controls = [autoRefresh |-> TRUE, providerFilter |-> All, usageSearch |-> <<>>,
                 hideInternal |-> FALSE]
  /\ form = EmptyForm
  /\ toasts = <<>>
  /\ net = {}
  /\ cycles = <<>>
  /\ calls = <<>>
  /\ timers = {}
  /\ phase = "loaded"
  /\ unhandled = {}
  /\ faults = <<>>
  /\ clock = ClockStart
  /\ dom = DomInitial
  /\ ticks = 0

Init == PageLoaded /\ store = NoSettings

\* ------------------------------------------------------------ the network
\* A fetch in flight: the function that awaits it (site), the code that
\* called that function (by), the refreshAll invocation (cyc) or dispatcher
\* invocation (call) it belongs to, 0 for none, and the request path as the
\* list of its segments.
Req(site, by, cyc, call, method, path) ==
  [site |-> site, by |-> by, cyc |-> cyc, call |-> call, method |-> method,
   path |-> path]

OpenclawUrl == <<"proxy", "openclaw">>

N8nUrl == <<"proxy", "n8n">>

\* How a fetch and the response.json() after it end: the fetch rejects
\* (transport), the body does not parse (parse), or the body parses (json).
\* A parsed body is JSON null, or an object; hasData says whether it has the
\* member the caller reads (non-empty for the content panels), ok and error
\* are those members ("absent" when missing), ver the snapshot it carries.
Body(isNull, hasData, ok, error, ver) ==
  [null |-> isNull, hasData |-> hasData, ok |-> ok, error |-> error, ver |-> ver]

Resp(kind, body) == [kind |-> kind, body |-> body]

NoBody == Body(TRUE, FALSE, "absent", FALSE, 1)

DataBodies == {Body(FALSE, TRUE, "absent", FALSE, v) : v \in Versions}

\* the responses a read-only endpoint can give
LoadResponses ==
  {Resp("transport", NoBody), Resp("parse", NoBody), Resp("json", NoBody),
   Resp("json", Body(FALSE, FALSE, "absent", FALSE, 1))}
    \cup {Resp("json", b) : b \in DataBodies}

\* the responses of the health endpoint
HealthResponses ==
  {Resp("transport", NoBody), Resp("parse", NoBody), Resp("json", NoBody)}
    \cup {Resp("json", Body(FALSE, FALSE, ok, err, 1)) :
            ok \in {"true", "false", "absent"}, err \in BOOLEAN}

\* the snapshots the view-model transformations are run on
WideVersions == 1..(MaxVersion + 5)

\* the responses of a read-only endpoint, with every snapshot
WideResponses ==
  LoadResponses \cup {Resp("json", Body(FALSE, TRUE, "absent", FALSE, v)) : v \in WideVersions}

\* the well-formed success of each kind of endpoint
Nominal(resp) ==
  /\ resp.kind = "json"
  /\ ~resp.body.null
  /\ resp.body.hasData \/ resp.body.ok = "true"
  /\ ~resp.body.error

\* the bound on failed and malformed responses
WithinFaults(resp) == Nominal(resp) \/ Len(faults) < MaxFaults

\* what a loader's status in its cycle becomes when its fetch ends
Outcome(resp) ==
  IF resp.kind # "json" THEN resp.kind
  ELSE IF resp.body.null \/ ~resp.body.hasData THEN "shape" ELSE "ok"

\* the record of the responses that were not the well-formed success: which
\* function awaited the fetch and how the fetch ended
CountFault(r, resp) ==
  faults' = IF Nominal(resp) THEN faults
            ELSE Append(faults, [site |-> r.site, outcome |-> Outcome(resp)])

\* showToast(message, type): the notification appended to the container
Toast(type, msg, call) == [type |-> type, msg |-> msg, call |-> call]

\* ------------------------------------------------------ activity synthesis
\* the activity item loadActivity makes of a session, t being Date.now()
ActivityItem(session, t) ==
  [type |-> "session",
   agent |-> IF session.agentId = "" THEN "main" ELSE session.agentId,
   content |-> [key |-> session.key, tokens |-> session.totalTokens],
   timestamp |-> IF session.updatedAt = 0 THEN t ELSE session.updatedAt]

\* the comparator with its operands exchanged: a.timestamp - b.timestamp
RECURSIVE InsertAscending(_, _)
InsertAscending(x, sorted) ==
  IF sorted = <<>> THEN <<x>>
  ELSE IF Head(sorted).timestamp <= x.timestamp
       THEN <<Head(sorted)>> \o InsertAscending(x, Tail(sorted))
       ELSE <<x>> \o sorted

\* x put behind every item whose timestamp is not smaller: what a stable
\* sort with the comparator b.timestamp - a.timestamp does.
RECURSIVE InsertDescending(_, _)
InsertDescending(x, sorted) ==
  IF sorted = <<>> THEN <<x>>
  ELSE IF Head(sorted).timestamp >= x.timestamp
       THEN <<Head(sorted)>> \o InsertDescending(x, Tail(sorted))
       ELSE <<x>> \o sorted

RECURSIVE SortDescending(_, _)
SortDescending(items, sorted) ==
  IF items = <<>> THEN sorted
  ELSE SortDescending(Tail(items), InsertDescending(Head(items), sorted))

\* activities.sort(...).slice(0, 20)
ActivityOf(sessions, t) ==
  Take(SortDescending([i \in DOMAIN sessions |-> ActivityItem(sessions[i], t)], <<>>),
       ActivityLimit)

\* ------------------------------------------------------------ agent cards
\* the ids of the AGENTS registry
AgentRegistry == {"main", "blog-publisher", "research-scraper", "inbox-checker"}

\* session.key?.split(':')[1]: the second colon-delimited segment of the key,
\* "" where it is undefined (no key, or a key without a colon)
KeySegment(session) == IF Len(session.key) >= 2 THEN session.key[2] ELSE ""

\* renderAgents: `session.key?.split(':')[1] || 'main'`
KeyAgent(session) == IF KeySegment(session) = "" THEN "main" ELSE KeySegment(session)

\* viewAgentDetails: `s.agentId || (s.key && s.key.split(':')[1]) || 'main'`
SessionAgent(session) ==
  IF session.agentId # "" THEN session.agentId ELSE KeyAgent(session)

\* `(session.ageMs || 0) / 60000 < 5`
RecentlyActive(session) == session.ageMs < ActiveMinutes * MinuteMs

\* renderAgents: the agent ids put into activeAgentIds
ActiveAgentIds(sessions) ==
  {KeyAgent(sessions[i]) : i \in {j \in DOMAIN sessions : RecentlyActive(sessions[j])}}

\* renderAgents: the registry agents whose card gets the class `active`
renderAgents(sessions) == {a \in AgentRegistry : a \in ActiveAgentIds(sessions)}

\* -------------------------------------------------------------- countdown
\* the remainder operator of JavaScript: the sign of the dividend
JsRem(a, b) == IF a >= 0 THEN a % b ELSE 0 - ((0 - a) % b)

\* String.prototype.padStart(2, '0')
PadStart2(str) == IF Len(str) < 2 THEN <<"0">> \o str ELSE str

\* `now > scheduleTime` with the comparison the wrong way at equality
RollsOverAtTarget(now, scheduleTime) == now >= scheduleTime

\* `if (now > scheduleTime)`: today's target has passed
RollsOver(now, scheduleTime) == now > scheduleTime

\* The text updateScheduleCountdown writes for CONFIG.scheduleHour = hour at
\* the local time `now`; times are milliseconds since today's local midnight.
Countdown(hour, now) ==
  IF hour = NaN
  THEN <<"N", "a", "N", ":", "N", "a", "N", ":", "N", "a", "N">>
  ELSE LET today == hour * HourMs
           scheduleTime == IF RollsOver(now, today) THEN today + DayMs ELSE today
           diff == scheduleTime - now
           hours == diff \div HourMs
           minutes == JsRem(diff, HourMs) \div MinuteMs
           seconds == JsRem(diff, MinuteMs) \div 1000
       IN  PadStart2(NumStr(hours)) \o <<":">> \o PadStart2(NumStr(minutes))
             \o <<":">> \o PadStart2(NumStr(seconds))

\* --------------------------------------------------------- refresh cycles
\* the functions app.js declares
Declared ==
  {"checkGatewayStatus", "checkN8nStatus", "closeAgentNoteView", "escapeHtml",
   "fetchN8n", "fetchOpenClaw", "filterUsage", "filterUsageEvents", "formatTime",
   "getAgentEmoji", "getAgentName", "hideAgentDetailsModal", "hideOllamaModal",
   "hideSpawnModal", "init", "loadActivity", "loadAgentLogs", "loadAgentMemory",
   "loadAgentNotes", "loadBlogPosts", "loadCronJobs", "loadLearningNotes",
   "loadN8nWorkflows", "loadOllama", "loadScheduleHistory", "loadSessions",
   "loadSettings", "loadUsage", "openNoteInModal", "openSpawnForAgent",
   "quickSpawn", "quickSpawnAgentFromModal", "refreshAll", "renderActivity",
   "renderAgents", "renderCronJobs", "renderN8nWorkflows", "renderOllama",
   "renderProvidersGrid", "renderSessions", "renderUsage", "renderUsageChart",
   "renderUsageEvents", "saveOllamaUsage", "saveSettings",
   "showOllamaUpdateModal", "showPanel", "showSpawnModal", "showToast",
   "spawnAgent", "switchAgentTab", "terminateSession", "toggleWorkflow",
   "triggerCron", "updateGatewayStatus", "updateN8nStatus",
   "updateScheduleCountdown", "updateStats", "viewAgentDetails",
   "viewSessionDetail"}

\* the array literal, had it the n8n workflows among its loaders
RefreshCallsWithN8n ==
  << "checkGatewayStatus", "loadSessions", "loadCronJobs", "loadN8nWorkflows",
     "loadActivity", "loadBlogPosts", "loadLearningNotes", "loadScheduleHistory",
     "loadUsage", "loadOllama", "loadPollers" >>

\* the array literal with the undeclared name first
RefreshCallsPollersFirst ==
  << "loadPollers", "checkGatewayStatus", "loadSessions", "loadCronJobs",
     "loadActivity", "loadBlogPosts", "loadLearningNotes", "loadScheduleHistory",
     "loadUsage", "loadOllama" >>

\* the calls in the array literal refreshAll hands to Promise.all, in order
RefreshCalls ==
  << "checkGatewayStatus", "loadSessions", "loadCronJobs", "loadActivity",
     "loadBlogPosts", "loadLearningNotes", "loadScheduleHistory", "loadUsage",
     "loadOllama", "loadPollers" >>

\* The calls of a list that are made: evaluation goes left to right and stops
\* with a ReferenceError at the first name that is not declared.
CallsMade(list) ==
  LET bad == {i \in DOMAIN list : list[i] \notin Declared}
  IN  IF bad = {} THEN list
      ELSE SubSeq(list, 1, (CHOOSE i \in bad : \A j \in bad : i <= j) - 1)

PathOf(site) ==
  CASE site = "checkGatewayStatus" -> OpenclawUrl \o <<"health">>
    [] site \in {"loadSessions", "loadActivity"} -> OpenclawUrl \o <<"sessions">>
    [] site = "loadCronJobs" -> OpenclawUrl \o <<"cron">>
    [] site = "loadN8nWorkflows" -> N8nUrl \o <<"workflows">>
    [] site = "loadBlogPosts" -> <<"proxy", "blog", "posts">>
    [] site = "loadLearningNotes" -> <<"proxy", "openclaw", "notes">>
    [] site = "loadScheduleHistory" -> <<"proxy", "openclaw", "history">>
    [] site = "loadUsage" -> <<"proxy", "usage">>
    [] site = "loadOllama" -> <<"proxy", "ollama">>
    [] OTHER -> <<"proxy", "dashboard", "settings">>

\* the DOM region a content loader fills, which it first sets to "Loading..."
ContentPanel(site) ==
  CASE site = "loadBlogPosts" -> "blog-posts"
    [] site = "loadLearningNotes" -> "learning-notes"
    [] OTHER -> "schedule-history"

ContentLoaders == {"loadBlogPosts", "loadLearningNotes", "loadScheduleHistory"}

\* Promise.all over the loaders of a cycle: pending while one is in flight
AllSettled(cy) == \A site \in DOMAIN cy.st : cy.st[site] # "inflight"

\* refreshAll(), called by `by` (for dispatcher invocation `call`): each call
\* of the array literal runs up to its first await, that is, issues its fetch;
\* a ReferenceError while the array is built rejects the promise at once and
\* leaves the loaders already started in flight.
refreshAll(by, call) ==
  LET c == Len(cycles) + 1
      made == CallsMade(RefreshCalls)
      started == Range(made)
      threw == Len(made) < Len(RefreshCalls)
  IN  [cycle |-> [by |-> by, call |-> call,
                  promise |-> IF threw THEN "rejected"
                              ELSE IF started = {} THEN "resolved" ELSE "pending",
                  st |-> [site \in Range(RefreshCalls) |->
                            IF site \in started THEN "inflight" ELSE "unstarted"],
                  got |-> [site \in Range(RefreshCalls) |-> 0]],
       reqs |-> {Req(site, "refreshAll", c, 0, "GET", PathOf(site)) : site \in started},
       panels |-> [p \in Panels |->
                     IF \E site \in started \cap ContentLoaders : ContentPanel(site) = p
                     THEN "loading" ELSE panels[p]]]

\* the record of a cycle after the fetch of loader `site` ended with
\* `outcome`; the Promise.all it awaits resolves with its last loader.
CycleAfter(cy, site, outcome, ver) ==
  LET c2 == [cy EXCEPT !.st[site] = outcome,
                       !.got[site] = IF outcome = "ok" THEN ver ELSE 0]
  IN  IF c2.promise = "pending" /\ AllSettled(c2)
      THEN [c2 EXCEPT !.promise = "resolved"] ELSE c2

\* A loader of request r returns: its cycle, if any, records it, and a
\* saveSettings awaiting that cycle's refreshAll returns true when the
\* cycle's promise resolves.
SettleLoad(r, outcome, ver) ==
  IF r.cyc = 0 THEN UNCHANGED << cycles, calls >>
  ELSE LET after == CycleAfter(cycles[r.cyc], r.site, outcome, ver)
       IN  /\ cycles' = [cycles EXCEPT ![r.cyc] = after]
           /\ calls' = IF /\ cycles[r.cyc].promise = "pending"
                          /\ after.promise = "resolved"
                          /\ after.by = "saveSettings"
                       THEN [calls EXCEPT ![after.call].pc = "done",
                                          ![after.call].ret = "true"]
                       ELSE calls

\* ----------------------------------------------------------- data loaders
\* Each loader action is the part of the loader that runs when its fetch
\* ends; the part before the await (issuing the fetch) belongs to the caller.

SetPanel(p, what) == panels' = [panels EXCEPT ![p] = what]

\* the field cleared by a load that did not succeed
KeptCleared(outcome, fresh, old) == IF outcome = "ok" THEN fresh ELSE <<>>

\* `if (data && data.sessions) { state.sessions = data.sessions; ... }` and its
\* like in the other loaders: the field after a load that ended with outcome
Kept(outcome, fresh, old) == IF outcome = "ok" THEN fresh ELSE old

\* how a health check ended: as the well-formed success, with a body that
\* reports ok: false, or as Outcome names it
HealthOutcome(resp) ==
  IF Nominal(resp) THEN "ok"
  ELSE IF resp.kind = "json" /\ ~resp.body.null /\ resp.body.ok = "false" THEN "notok"
  ELSE Outcome(resp)

\* data && (data.ok === true || !data.error)
Online(body) ==
  IF body.null THEN "null"
  ELSE IF body.ok = "true" \/ ~body.error THEN "true"
  ELSE "false"

\* checkGatewayStatus, from `await fetch` on
checkGatewayStatus ==
  \E r \in net, resp \in HealthResponses :
    /\ r.site = "checkGatewayStatus"
    /\ WithinFaults(resp)
    /\ CountFault(r, resp)
    /\ LET online == IF resp.kind # "json" THEN "false" ELSE Online(resp.body)
       IN  /\ state' = [state EXCEPT !.gatewayOnline = online]
           /\ SetPanel("gateway-status", IF online = "true" THEN "online" ELSE "offline")
    /\ net' = net \ {r}
    /\ SettleLoad(r, HealthOutcome(resp), 0)
    /\ UNCHANGED << usageData, filteredEvents, ollamaData, CONFIG, controls, form,
                    toasts, timers, phase, unhandled, store, clock, dom, ticks >>

\* loadSessions, from `await fetchOpenClaw('/sessions')` on; when
\* terminateSession awaited it, terminateSession goes on to
\* viewAgentDetails(agentModalCurrentId), which calls loadSessions again;
\* when viewAgentDetails awaited it, viewAgentDetails goes on to fill the
\* sessions list of the modal from state.sessions.
loadSessionsFrom(responses) ==
  \E r \in net, resp \in responses :
    /\ r.site = "loadSessions"
    /\ WithinFaults(resp)
    /\ CountFault(r, resp)
    /\ state' = [state EXCEPT !.sessions =
                   Kept(Outcome(resp), SessionData(resp.body.ver), @)]
    /\ SetPanel("sessions-list", IF Outcome(resp) = "ok" THEN "rendered" ELSE "nodata")
    /\ LET page == IF r.by = "viewAgentDetails"
                    THEN [dom EXCEPT !.modal.panes["sessions"] = "rendered"]
                    ELSE dom
       IN  dom' = IF Outcome(resp) = "ok"
                  THEN [page EXCEPT !.activeAgents = renderAgents(state'.sessions),
                                    !.countdown = Countdown(CONFIG.scheduleHour, clock)]
                  ELSE page
    /\ IF r.by = "terminateSession"
       THEN /\ net' = (net \ {r}) \cup
                        {Req("loadSessions", "viewAgentDetails", 0, r.call, "GET",
                             PathOf("loadSessions"))}
            /\ calls' = [calls EXCEPT ![r.call].pc = "done",
                                      ![r.call].ret = "undefined"]
            /\ cycles' = cycles
       ELSE /\ net' = net \ {r}
            /\ SettleLoad(r, Outcome(resp), resp.body.ver)
    /\ UNCHANGED << usageData, filteredEvents, ollamaData, CONFIG, controls, form,
                    toasts, timers, phase, unhandled, store, clock, ticks >>

loadSessions == loadSessionsFrom(LoadResponses)

\* loadCronJobs, from `await fetchOpenClaw('/cron')` on
loadCronJobsFrom(responses) ==
  \E r \in net, resp \in responses :
    /\ r.site = "loadCronJobs"
    /\ WithinFaults(resp)
    /\ CountFault(r, resp)
    /\ state' = [state EXCEPT !.cronJobs =
                   Kept(Outcome(resp), CronData(resp.body.ver), @)]
    /\ SetPanel("cron-jobs-list", IF Outcome(resp) = "ok" THEN "rendered" ELSE "nodata")
    /\ dom' = IF Outcome(resp) = "ok"
              THEN [dom EXCEPT !.countdown = Countdown(CONFIG.scheduleHour, clock)]
              ELSE dom
    /\ net' = net \ {r}
    /\ SettleLoad(r, Outcome(resp), resp.body.ver)
    /\ UNCHANGED << usageData, filteredEvents, ollamaData, CONFIG, controls, form,
                    toasts, timers, phase, unhandled, store, clock, ticks >>

loadCronJobs == loadCronJobsFrom(LoadResponses)

\* loadN8nWorkflows, from `await fetchN8n('/workflows')` on
loadN8nWorkflows ==
  \E r \in net, resp \in LoadResponses :
    /\ r.site = "loadN8nWorkflows"
    /\ WithinFaults(resp)
    /\ CountFault(r, resp)
    /\ state' = [state EXCEPT !.n8nWorkflows =
                   Kept(Outcome(resp), WorkflowData(resp.body.ver), @)]
    /\ SetPanel("n8n-workflows",
                IF Outcome(resp) = "ok" THEN "rendered" ELSE panels["n8n-workflows"])
    /\ net' = net \ {r}
    /\ SettleLoad(r, Outcome(resp), resp.body.ver)
    /\ UNCHANGED << usageData, filteredEvents, ollamaData, CONFIG, controls, form,
                    toasts, timers, phase, unhandled, store, clock, dom, ticks >>

\* loadActivity, from `await fetchOpenClaw('/sessions')` on
loadActivityFrom(responses) ==
  \E r \in net, resp \in responses, t \in ClockValues :
    /\ r.site = "loadActivity"
    /\ WithinFaults(resp)
    /\ CountFault(r, resp)
    /\ state' = [state EXCEPT !.activity =
                   Kept(Outcome(resp), ActivityOf(SessionData(resp.body.ver), t), @)]
    /\ SetPanel("activity-feed",
                IF Outcome(resp) = "ok" THEN "rendered" ELSE panels["activity-feed"])
    /\ net' = net \ {r}
    /\ SettleLoad(r, Outcome(resp), resp.body.ver)
    /\ UNCHANGED << usageData, filteredEvents, ollamaData, CONFIG, controls, form,
                    toasts, timers, phase, unhandled, store, clock, dom, ticks >>

loadActivity == loadActivityFrom(LoadResponses)

\* loadBlogPosts, loadLearningNotes and loadScheduleHistory, from
\* `await fetch` on: the list, the empty-state text, or the failure text.
LoadContent(site) ==
  \E r \in net, resp \in LoadResponses :
    /\ r.site = site
    /\ WithinFaults(resp)
    /\ CountFault(r, resp)
    /\ SetPanel(ContentPanel(site),
                CASE Outcome(resp) = "ok" -> "rendered"
                  [] Outcome(resp) = "shape" -> "empty"
                  [] OTHER -> "failed")
    /\ net' = net \ {r}
    /\ SettleLoad(r, Outcome(resp), resp.body.ver)
    /\ UNCHANGED << state, usageData, filteredEvents, ollamaData, CONFIG, controls,
                    form, toasts, timers, phase, unhandled, store, clock, dom, ticks >>

loadBlogPosts == LoadContent("loadBlogPosts")

loadLearningNotes == LoadContent("loadLearningNotes")

loadScheduleHistory == LoadContent("loadScheduleHistory")

\* usageData.summary || {}
SummaryOf(usage) == IF usage.hasSummary THEN usage.summary ELSE EmptySummary

TotalRequestsKey ==
  <<"t", "o", "t", "a", "l", "_", "r", "e", "q", "u", "e", "s", "t", "s">>

\* Object.keys(summary): the provider names and, where the summary counts
\* requests, the key total_requests
SummaryKeys(summary) ==
  [i \in DOMAIN summary.providers |-> summary.providers[i].name]
    \o (IF summary.total_requests # 0 THEN <<TotalRequestsKey>> ELSE <<>>)

\* the providers renderUsage lists: the summary's keys but total_requests,
\* and but Gateway when the hide-internal box is checked
UsageProviders(usage, hideInternal) ==
  LET NotTotal(k) == k # TotalRequestsKey
      NotInternal(name) == name # Gateway
      providers == SeqFilter(SummaryKeys(SummaryOf(usage)), NotTotal)
  IN  IF hideInternal THEN SeqFilter(providers, NotInternal) ELSE providers

\* summary[p]?.models, no models where the summary has no such provider
ModelsOf(summary, p) ==
  LET at == {i \in DOMAIN summary.providers : summary.providers[i].name = p}
  IN  IF at = {} THEN <<>> ELSE summary.providers[CHOOSE i \in at : TRUE].models

\* total += m.requests || 0, over the models of a provider
RECURSIVE SumRequests(_)
SumRequests(models) ==
  IF models = <<>> THEN 0 ELSE Head(models).requests + SumRequests(Tail(models))

\* the total of every provider counted, hidden ones included
ChartOfAllProviders(summary, providers) ==
  [i \in DOMAIN summary.providers |->
     [provider |-> summary.providers[i].name,
      total |-> SumRequests(summary.providers[i].models)]]

\* renderUsageChart: the bars drawn, each with its provider and the total
\* written above it; no bar for an empty provider list
renderUsageChart(summary, providers) ==
  [i \in DOMAIN providers |->
     [provider |-> providers[i], total |-> SumRequests(ModelsOf(summary, providers[i]))]]

\* the pixels of the lowest and of the highest bar
BarFloor == 20

BarMax == 160

\* `let max = 1; ... if (total > max) max = total;` over the bars of a chart
RECURSIVE ChartMax(_)
ChartMax(bars) ==
  IF bars = <<>> THEN 1
  ELSE LET rest == ChartMax(Tail(bars))
       IN  IF Head(bars).total > rest THEN Head(bars).total ELSE rest

\* (total / max) * 160 with no floor
BarHeightUnfloored(total, max) == [num |-> total * BarMax, den |-> max]

\* Math.max(20, (total / max) * 160): a number of pixels that need not be
\* whole, kept as the fraction num / den
BarHeight(total, max) ==
  IF total * BarMax >= BarFloor * max
  THEN [num |-> total * BarMax, den |-> max]
  ELSE [num |-> BarFloor, den |-> 1]

\* the height of each bar renderUsageChart draws
BarHeights(bars) ==
  [i \in DOMAIN bars |-> BarHeight(bars[i].total, ChartMax(bars))]

\* renderUsage: the provider count and the chart it writes
renderUsage(usage, hideInternal) ==
  LET providers == UsageProviders(usage, hideInternal)
      bars == renderUsageChart(SummaryOf(usage), providers)
  IN  [providersCount |-> Len(providers),
       providerTotals |-> bars,
       barHeights |-> BarHeights(bars)]

\* what renderUsage leaves of the rendered page
DomAfterUsage(usage, hideInternal) ==
  [dom EXCEPT !.providersCount = renderUsage(usage, hideInternal).providersCount,
              !.providerTotals = renderUsage(usage, hideInternal).providerTotals,
              !.barHeights = renderUsage(usage, hideInternal).barHeights]

\* What the provider dropdown holds after renderUsage rebuilt its options
\* and assigned `currentVal || 'all'`: a value that is no option selects
\* nothing, and the dropdown's value is then the empty string.
DropdownAfterRender(currentVal, providers) ==
  LET want == IF currentVal = <<>> THEN All ELSE currentVal
  IN  IF want = All \/ want \in Range(providers) THEN want ELSE <<>>

\* the value of usageData after `usageData = data`
UsageOf(body) ==
  IF body.null THEN UsageNull
  ELSE IF body.hasData THEN UsagePayload(body.ver) ELSE UsageNoKeys

\* data.events || []
EventsOf(usage) == IF usage.hasEvents THEN usage.events ELSE <<>>

\* loadUsage, from `await fetch('/proxy/usage')` on.  A body of JSON null is
\* assigned to usageData before `data.events` throws into the catch block.
loadUsageFrom(responses) ==
  \E r \in net, resp \in responses :
    /\ r.site = "loadUsage"
    /\ WithinFaults(resp)
    /\ CountFault(r, resp)
    /\ IF resp.kind # "json"
       THEN /\ SetPanel("usage-providers-grid", "failed")
            /\ UNCHANGED << usageData, filteredEvents, controls, dom >>
       ELSE /\ usageData' = UsageOf(resp.body)
            /\ IF resp.body.null
               THEN /\ SetPanel("usage-providers-grid", "failed")
                    /\ UNCHANGED << filteredEvents, controls, dom >>
               ELSE /\ filteredEvents' = EventsOf(usageData')
                    /\ dom' = DomAfterUsage(usageData', controls.hideInternal)
                    /\ controls' =
                         [controls EXCEPT !.providerFilter =
                            DropdownAfterRender(@, UsageProviders(usageData',
                                                                  controls.hideInternal))]
                    /\ SetPanel("usage-providers-grid", "rendered")
    /\ net' = net \ {r}
    /\ SettleLoad(r, Outcome(resp), resp.body.ver)
    /\ UNCHANGED << state, ollamaData, CONFIG, form, toasts, timers, phase, unhandled,
                    store, clock, ticks >>

loadUsage == loadUsageFrom(LoadResponses)

\* the value of ollamaData after `ollamaData = data`
OllamaOf(body) ==
  IF body.null THEN OllamaNull
  ELSE IF body.hasData THEN OllamaPayload(body.ver) ELSE OllamaNoKeys

\* loadOllama, from `await fetch('/proxy/ollama')` on.  A body of JSON null
\* is assigned to ollamaData before renderOllama throws into the catch block.
loadOllamaFrom(responses) ==
  \E r \in net, resp \in responses :
    /\ r.site = "loadOllama"
    /\ WithinFaults(resp)
    /\ CountFault(r, resp)
    /\ IF resp.kind # "json"
       THEN /\ SetPanel("ollama-local-status", "error")
            /\ UNCHANGED ollamaData
       ELSE /\ ollamaData' = OllamaOf(resp.body)
            /\ SetPanel("ollama-local-status",
                        IF resp.body.null THEN "error"
                        ELSE IF ollamaData'.hasLocal /\ ollamaData'.online THEN "online"
                        ELSE "offline")
    /\ net' = net \ {r}
    /\ SettleLoad(r, Outcome(resp), resp.body.ver)
    /\ UNCHANGED << state, usageData, filteredEvents, CONFIG, controls, form, toasts,
                    timers, phase, unhandled, store, clock, dom, ticks >>

loadOllama == loadOllamaFrom(LoadResponses)

\* ------------------------------------------------------- settings: loading
\* the form as loadSettings fills it from the settings object s
PopulateForm(s) ==
  Form(s.hashnode_api_key, s.hashnode_url, s.publication_id,
       IF s.scheduleHour.t # "undefined" THEN HourInputValue(s.scheduleHour)
       ELSE NumStr(CONFIG.scheduleHour),
       s.notes_path,
       JoinLines(s.rss_feeds),
       JSONStringifyPretty(IF s.hasProviders /\ JTruthy(s.providers) THEN s.providers
                           ELSE EmptyObject))

\* the responses of GET /proxy/dashboard/settings; a well-formed one carries
\* the settings object the store holds
SettingsResponses ==
  {Resp("transport", NoBody), Resp("parse", NoBody), Resp("json", NoBody),
   Resp("json", Body(FALSE, FALSE, "absent", FALSE, 1)),
   Resp("json", Body(FALSE, TRUE, "absent", FALSE, 1))}

\* loadSettings(), from `await fetch` on; called by init, init goes on to
\* call refreshAll() without awaiting it and to start the two timers.
loadSettings ==
  \E r \in net, resp \in SettingsResponses :
    /\ r.site = "loadSettings"
    /\ WithinFaults(resp)
    /\ CountFault(r, resp)
    /\ IF resp.kind = "json" /\ ~resp.body.null
       THEN LET s == IF resp.body.hasData THEN store ELSE NoSettings
            IN  /\ form' = PopulateForm(s)
                /\ CONFIG' = IF s.scheduleHour.t # "undefined"
                             THEN [CONFIG EXCEPT !.scheduleHour = ParseIntHour(s.scheduleHour)]
                             ELSE CONFIG
                /\ toasts' = Append(toasts, Toast("success", "Settings loaded", 0))
       ELSE /\ toasts' = Append(toasts, Toast("error", "Failed to load settings", 0))
            /\ UNCHANGED << form, CONFIG >>
    /\ IF r.by = "init"
       THEN LET started == refreshAll("init", 0)
            IN  /\ cycles' = Append(cycles, started.cycle)
                /\ net' = (net \ {r}) \cup started.reqs
                /\ panels' = started.panels
                /\ unhandled' = IF started.cycle.promise = "rejected"
                                THEN unhandled \cup {"refreshAll"} ELSE unhandled
                /\ phase' = "running"
       ELSE /\ net' = net \ {r}
            /\ UNCHANGED << cycles, panels, unhandled, phase >>
    /\ UNCHANGED << state, usageData, filteredEvents, ollamaData, controls, calls,
                    timers, store, clock, dom, ticks >>

\* --------------------------------------------------------- initialization
\* init(), up to `await loadSettings()`
init ==
  /\ phase = "loaded"
  /\ phase' = "settings"
  /\ net' = net \cup {Req("loadSettings", "init", 0, 0, "GET", PathOf("loadSettings"))}
  /\ dom' = [dom EXCEPT !.activeAgents = renderAgents(state.sessions)]
  /\ UNCHANGED << state, usageData, filteredEvents, ollamaData, CONFIG, panels,
                  controls, form, toasts, cycles, calls, timers, unhandled, faults,
                  store, clock, ticks >>

\* the test of the checkbox left out
AutoRefreshAlways == TRUE

\* `document.getElementById('auto-refresh')?.checked !== false`
AutoRefreshChecked == controls.autoRefresh

\* the fetches in flight once a refresh has issued its own, had the refresh
\* aborted the fetches of the same loaders it found in flight
Superseding(inFlight, reqs) ==
  {q \in inFlight : \A r \in reqs : r.site # q.site} \cup reqs

\* the fetches in flight once a refresh has issued its own: no fetch is given
\* an abort signal, so those already in flight stay
Issued(inFlight, reqs) == inFlight \cup reqs

\* The callback of setInterval(..., CONFIG.refreshInterval): refreshAll()
\* unless the auto-refresh box is unchecked; the promise is dropped.
\* inFlight bounds the fetches in flight once the refresh has started.
RefreshTimerWithin(inFlight) ==
  /\ phase = "running"
  /\ ticks < MaxTicks
  /\ ticks' = ticks + 1
  /\ IF AutoRefreshChecked
     THEN LET started == refreshAll("timer", 0)
          IN  /\ Len(cycles) < MaxCycles
              /\ Cardinality(net) + Len(CallsMade(RefreshCalls)) <= inFlight
              /\ cycles' = Append(cycles, started.cycle)
              /\ net' = Issued(net, started.reqs)
              /\ panels' = started.panels
              /\ unhandled' = IF started.cycle.promise = "rejected"
                              THEN unhandled \cup {"refreshAll"} ELSE unhandled
     ELSE UNCHANGED << cycles, net, panels, unhandled >>
  /\ UNCHANGED << state, usageData, filteredEvents, ollamaData, CONFIG, controls,
                  form, toasts, calls, timers, phase, faults, store, clock, dom >>

RefreshTimer == RefreshTimerWithin(MaxInFlight)

\* The user clicks the auto-refresh checkbox; no handler is attached to it.
ToggleAutoRefresh ==
  /\ phase = "running"
  /\ controls' = [controls EXCEPT !.autoRefresh = ~@]
  /\ UNCHANGED << state, usageData, filteredEvents, ollamaData, CONFIG, panels, form,
                  toasts, net, cycles, calls, timers, phase, unhandled, faults, store,
                  clock, dom, ticks >>

\* The user clicks the hide-internal checkbox.
ToggleHideInternal ==
  /\ phase = "running"
  /\ controls' = [controls EXCEPT !.hideInternal = ~@]
  /\ UNCHANGED << state, usageData, filteredEvents, ollamaData, CONFIG, panels, form,
                  toasts, net, cycles, calls, timers, phase, unhandled, faults, store,
                  clock, dom, ticks >>

\* the local times at which the countdown timer may fire: around midnight,
\* and just before, at and just after some hours
ClockInputs ==
  {0, 1, 999, 1000, DayMs - 1}
    \cup {h * HourMs + d : h \in {7, 12, 23}, d \in {0 - 1, 0, 1, 1500}}

\* The callback of setInterval(updateScheduleCountdown, 1000), run at the
\* local time t.
updateScheduleCountdown ==
  \E t \in ClockInputs :
    /\ phase = "running"
    /\ clock' = t
    /\ dom' = [dom EXCEPT !.countdown = Countdown(CONFIG.scheduleHour, t)]
    /\ UNCHANGED << state, usageData, filteredEvents, ollamaData, CONFIG, panels,
                    controls, form, toasts, net, cycles, calls, timers, phase, unhandled,
                    faults, store, ticks >>

\* the loaders, each from the end of its fetch on
Loaders ==
  \/ checkGatewayStatus
  \/ loadSessions
  \/ loadCronJobs
  \/ loadActivity
  \/ loadBlogPosts
  \/ loadLearningNotes
  \/ loadScheduleHistory
  \/ loadUsage
  \/ loadOllama

\* ------------------------------------------------ the refresh orchestrator
NextRefresh ==
  \/ init
  \/ loadSettings
  \/ RefreshTimer
  \/ Loaders

SpecRefresh == Init /\ [][NextRefresh]_vars

\* ------------------------------------------------------------ dispatchers
\* A dispatcher invocation: the function and its argument (for saveSettings
\* the form it read), where it stands
\* (await: its remote call is in flight; load: terminateSession awaits
\* loadSessions; refresh: saveSettings awaits refreshAll; done), what it
\* returned, the response its remote call got, the loaders it called or
\* scheduled, the refresh cycle it started (0 for none) and the settings
\* object it posted.
NoAnswer == Resp("none", NoBody)

Call(op, arg, pc, ret, posted) ==
  [op |-> op, arg |-> arg, pc |-> pc, ret |-> ret, answer |-> NoAnswer,
   refetched |-> {}, cycle |-> 0, posted |-> posted]

\* the responses a mutating endpoint can give
PostResponses ==
  {Resp("transport", NoBody), Resp("parse", NoBody), Resp("json", NoBody)}
    \cup {Resp("json", Body(FALSE, FALSE, ok, err, 1)) :
            ok \in {"true", "false", "absent"}, err \in BOOLEAN}

\* what fetchOpenClaw and fetchN8n return: null when the fetch or
\* response.json() threw, the parsed body otherwise
Fetched(resp) == IF resp.kind = "json" THEN resp.body ELSE NoBody

\* a result taken for a success unless it carries an error
ResultOkUnlessError(result) == ~result.null /\ ~result.error

\* result && result.ok
ResultOk(result) == ~result.null /\ result.ok = "true"

\* result && result.error
ResultError(result) == ~result.null /\ result.error

\* result && !result.error
ResultNoError(result) == ~result.null /\ ~result.error

\* the bound on dispatcher invocations and on fetches in flight
MayDispatch == Len(calls) < MaxCalls /\ Cardinality(net) < MaxInFlight

Show(k, items) == toasts' = toasts \o [i \in DOMAIN items |-> Toast(items[i][1], items[i][2], k)]

\* the inputs of the dispatchers
TaskInputs == {<<>>, <<" ">>, <<"t">>}

AgentIds == {"main"}

JobIds == {"job1"}

WorkflowIds == {"wf1"}

SessionKeys == {<<"s1">>}

\* spawnAgent(), up to `await fetchOpenClaw('/sessions/spawn', ...)`
spawnAgent ==
  \E agentId \in AgentIds, task \in TaskInputs :
    LET k == Len(calls) + 1
    IN  /\ MayDispatch
        /\ IF Trim(task) = <<>>
           THEN /\ Show(k, << <<"error", "Please enter a task">> >>)
                /\ calls' = Append(calls, Call("spawnAgent", agentId, "done", "undefined",
                                               NoSettings))
                /\ net' = net
           ELSE /\ Show(k, << <<"info", "Spawning">> >>)
                /\ calls' = Append(calls, Call("spawnAgent", agentId, "await", "none",
                                               NoSettings))
                /\ net' = net \cup {Req("spawnAgent", "user", 0, k, "POST",
                                        OpenclawUrl \o <<"sessions", "spawn">>)}
        /\ UNCHANGED << state, usageData, filteredEvents, ollamaData, CONFIG, panels,
                        controls, form, cycles, timers, phase, unhandled, faults,
                        store, clock, dom, ticks >>

\* spawnAgent(), from the await on
spawnAgentResumes ==
  \E r \in net, resp \in PostResponses :
    LET result == Fetched(resp)
        k == r.call
    IN  /\ r.site = "spawnAgent"
        /\ WithinFaults(resp)
        /\ CountFault(r, resp)
        /\ net' = net \ {r}
        /\ IF ResultOk(result)
           THEN /\ Show(k, << <<"success", "Spawned">> >>)
                /\ timers' = timers \cup {k}
                /\ calls' = [calls EXCEPT ![k].pc = "done", ![k].ret = "undefined",
                                          ![k].answer = resp,
                                          ![k].refetched = {"loadSessions"}]
           ELSE /\ IF ResultError(result)
                   THEN Show(k, << <<"error", "Failed to spawn">> >>)
                   ELSE toasts' = toasts
                /\ timers' = timers
                /\ calls' = [calls EXCEPT ![k].pc = "done", ![k].ret = "undefined",
                                          ![k].answer = resp]
        /\ UNCHANGED << state, usageData, filteredEvents, ollamaData, CONFIG, panels,
                        controls, form, cycles, phase, unhandled, store, clock, dom,
                        ticks >>

\* the callback of setTimeout(loadSessions, 2000): loadSessions up to its await
SpawnTimer ==
  \E k \in timers :
    /\ timers' = timers \ {k}
    /\ net' = net \cup {Req("loadSessions", "setTimeout", 0, k, "GET",
                            PathOf("loadSessions"))}
    /\ UNCHANGED << state, usageData, filteredEvents, ollamaData, CONFIG, panels,
                    controls, form, toasts, cycles, calls, phase, unhandled, faults,
                    store, clock, dom, ticks >>

\* A dispatcher that only issues its POST: quickSpawn, triggerCron,
\* toggleWorkflow, and terminateSession once the user confirmed.
Dispatch(op, arg, path) ==
  LET k == Len(calls) + 1
  IN  /\ MayDispatch
      /\ calls' = Append(calls, Call(op, arg, "await", "none", NoSettings))
      /\ net' = net \cup {Req(op, "user", 0, k, "POST", path)}
      /\ UNCHANGED << state, usageData, filteredEvents, ollamaData, CONFIG, panels,
                      controls, form, toasts, cycles, timers, phase, unhandled,
                      faults, store, clock, dom, ticks >>

\* quickSpawn(agentId), up to its await
quickSpawn ==
  \E agentId \in AgentIds :
    Dispatch("quickSpawn", agentId, OpenclawUrl \o <<"api", "sessions", "spawn">>)

\* triggerCron(jobId), up to its await
triggerCron ==
  \E jobId \in JobIds :
    Dispatch("triggerCron", jobId, OpenclawUrl \o <<"api", "cron", "run">>)

\* toggleWorkflow(workflowId, activate), up to its await
toggleWorkflow ==
  \E workflowId \in WorkflowIds, activate \in BOOLEAN :
    Dispatch("toggleWorkflow", <<workflowId, activate>>,
             N8nUrl \o <<"workflows", workflowId,
                         IF activate THEN "activate" ELSE "deactivate">>)

\* terminateSession(sessionKey), up to `await fetch`; nothing happens when
\* the user cancels the confirm dialog.
terminateSession ==
  \E sessionKey \in SessionKeys, confirmed \in BOOLEAN :
    IF confirmed
    THEN Dispatch("terminateSession", sessionKey, OpenclawUrl \o <<"sessions", "terminate">>)
    ELSE /\ MayDispatch
         /\ calls' = Append(calls, Call("terminateSession", sessionKey, "done",
                                        "undefined", NoSettings))
         /\ UNCHANGED << state, usageData, filteredEvents, ollamaData, CONFIG, panels,
                         controls, form, toasts, net, cycles, timers, phase,
                         unhandled, faults, store, clock, dom, ticks >>

\* A dispatcher of the shape `if (result && !result.error) {success toast;
\* re-fetch} else {error toast}`, from its await on; loader is the loader it
\* calls on success, "" for none.
Resume(op, okMsg, errMsg, loader) ==
  \E r \in net, resp \in PostResponses :
    LET result == Fetched(resp)
        k == r.call
        ok == ResultNoError(result)
    IN  /\ r.site = op
        /\ WithinFaults(resp)
        /\ CountFault(r, resp)
        /\ Show(k, IF ok THEN << <<"success", okMsg>> >> ELSE << <<"error", errMsg>> >>)
        /\ net' = (net \ {r}) \cup
                    (IF ok /\ loader # ""
                     THEN {Req(loader, op, 0, k, "GET", PathOf(loader))} ELSE {})
        /\ calls' = [calls EXCEPT ![k].pc = "done", ![k].ret = "undefined",
                                  ![k].answer = resp,
                                  ![k].refetched = IF ok /\ loader # "" THEN {loader}
                                                   ELSE {}]
        /\ UNCHANGED << state, usageData, filteredEvents, ollamaData, CONFIG, panels,
                        controls, form, cycles, timers, phase, unhandled, store,
                        clock, dom, ticks >>

\* quickSpawn, from its await on
quickSpawnResumes == Resume("quickSpawn", "Spawned", "Failed to spawn", "loadSessions")

\* triggerCron, from its await on
triggerCronResumes == Resume("triggerCron", "Job triggered", "Failed", "")

\* toggleWorkflow, from its await on
toggleWorkflowResumes ==
  Resume("toggleWorkflow", "Workflow toggled", "Failed", "loadN8nWorkflows")

\* terminateSession, from `await fetch` on: a rejected fetch or an
\* unparseable body goes to the catch block; after a success it awaits
\* loadSessions (the action loadSessions continues it).
terminateSessionResumes ==
  \E r \in net, resp \in PostResponses :
    LET k == r.call
        ok == resp.kind = "json" /\ ResultNoError(resp.body)
    IN  /\ r.site = "terminateSession"
        /\ WithinFaults(resp)
        /\ CountFault(r, resp)
        /\ Show(k, IF ok THEN << <<"success", "Session terminated">> >>
                   ELSE IF resp.kind = "json" THEN << <<"error", "Failed to terminate">> >>
                   ELSE << <<"error", "Failed to terminate session">> >>)
        /\ net' = (net \ {r}) \cup
                    (IF ok THEN {Req("loadSessions", "terminateSession", 0, k, "GET",
                                     PathOf("loadSessions"))} ELSE {})
        /\ calls' = [calls EXCEPT ![k].pc = IF ok THEN "load" ELSE "done",
                                  ![k].ret = IF ok THEN "none" ELSE "undefined",
                                  ![k].answer = resp,
                                  ![k].refetched = IF ok THEN {"loadSessions"} ELSE {}]
        /\ UNCHANGED << state, usageData, filteredEvents, ollamaData, CONFIG, panels,
                        controls, form, cycles, timers, phase, unhandled, store,
                        clock, dom, ticks >>

\* -------------------------------------------------------- settings: saving
\* the texts of the providers textarea the user may enter
ProvSimple == <<"{", "\"a\"", ":", "1.0", "}">>

ProvNested == <<"{", "\"a\"", ":", "{", "\"k\"", ":", "[", "1", ",", "\"m\"", "]", "}", "}">>

ProvInvalid == <<"{", "\"a\"", ":">>

\* the forms the user may fill in
BaseForm == Form(<<"k">>, <<"u">>, <<"p">>, <<"7">>, <<"n">>, <<"f">>, ProvSimple)

FormInputs ==
  { BaseForm,
    [BaseForm EXCEPT !.hour = <<"0">>],
    [BaseForm EXCEPT !.hour = <<>>],
    [BaseForm EXCEPT !.key = <<" ", "k">>],
    [BaseForm EXCEPT !.rss = <<"f", "\n", "\n", "g">>],
    [BaseForm EXCEPT !.providers = ProvNested],
    [BaseForm EXCEPT !.providers = <<"null">>],
    [BaseForm EXCEPT !.providers = <<>>],
    [BaseForm EXCEPT !.providers = ProvInvalid] }

\* the forms entered where the contents of the fields matter less
FewForms ==
  { BaseForm, [BaseForm EXCEPT !.providers = <<>>],
    [BaseForm EXCEPT !.providers = ProvInvalid] }

\* the user types into the settings form
EnterSettings(forms) ==
  \E f \in forms :
    /\ form # f
    /\ form' = f
    /\ UNCHANGED << state, usageData, filteredEvents, ollamaData, CONFIG, panels,
                    controls, toasts, net, cycles, calls, timers, phase, unhandled,
                    faults, store, clock, dom, ticks >>

\* parseInt(get('settings-schedule-hour')) || CONFIG.scheduleHour
ScheduleHourOf(f) ==
  IF Truthy(ParseInt(f.hour)) THEN ParseInt(f.hour) ELSE CONFIG.scheduleHour

\* get('settings-providers-json').trim()
ProvText(f) == Trim(f.providers)

\* the SyntaxError of JSON.parse swallowed
InvalidProvidersIgnored(f) == FALSE

\* whether JSON.parse(provText) throws
InvalidProviders(f) == ProvText(f) # <<>> /\ ~JSONParse(ProvText(f)).ok

\* the settings object saveSettings builds from the form
SettingsOf(f) ==
  Settings(Trim(f.key), Trim(f.url), Trim(f.pub),
           HourNum(ScheduleHourOf(f)),
           Trim(f.notes),
           SeqFilter(MapTrim(SplitLines(f.rss)), NonEmpty),
           TRUE,
           IF ProvText(f) = <<>> THEN EmptyObject ELSE JSONParse(ProvText(f)).val)

\* The settings object as the server reads it from the request body
\* JSON.stringify({ settings }): NaN is written as null, the providers value
\* as its JSON text.
OnWire(s) ==
  [s EXCEPT !.scheduleHour = IF s.scheduleHour.n = NaN THEN HourNull ELSE @,
            !.providers = JSONParse(JSONStringify(s.providers)).val]

\* the settings store after the POST was answered with resp: the settings
\* posted when the answer says ok
StoreAfter(resp, posted) ==
  IF resp.kind = "json" /\ ResultOk(resp.body) THEN OnWire(posted) ELSE store

\* saveSettings(), up to `await fetch`
saveSettings ==
  LET k == Len(calls) + 1
  IN  /\ MayDispatch
      /\ IF InvalidProviders(form)
         THEN /\ Show(k, << <<"error", "Invalid providers JSON">> >>)
              /\ calls' = Append(calls, Call("saveSettings", form, "done", "false", NoSettings))
              /\ net' = net
         ELSE /\ toasts' = toasts
              /\ calls' = Append(calls, Call("saveSettings", form, "await", "none",
                                             SettingsOf(form)))
              /\ net' = net \cup {Req("saveSettings", "user", 0, k, "POST",
                                      PathOf("saveSettings"))}
      /\ UNCHANGED << state, usageData, filteredEvents, ollamaData, CONFIG, panels,
                      controls, form, cycles, timers, phase, unhandled, faults, store,
                      clock, dom, ticks >>

\* the bound on refresh cycles and on fetches in flight, for a response
\* that makes saveSettings call refreshAll
MayRefresh(r) ==
  /\ Len(cycles) < MaxCycles
  /\ Cardinality(net \ {r}) + Len(CallsMade(RefreshCalls)) <= MaxInFlight

\* saveSettings(), from `await fetch` on.  A rejected fetch, an unparseable
\* body and a rejected refreshAll all go to the catch block; while the
\* promise of refreshAll is pending, saveSettings awaits it (SettleLoad
\* continues it).
saveSettingsResumes ==
  \E r \in net, resp \in PostResponses :
    LET k == r.call
        ok == resp.kind = "json" /\ ResultOk(resp.body)
        started == refreshAll("saveSettings", k)
        outcome == started.cycle.promise
    IN  /\ r.site = "saveSettings"
        /\ WithinFaults(resp)
        /\ CountFault(r, resp)
        /\ store' = StoreAfter(resp, calls[k].posted)
        /\ IF ok
           THEN /\ MayRefresh(r)
                /\ CONFIG' = [CONFIG EXCEPT !.scheduleHour = calls[k].posted.scheduleHour.n]
                /\ cycles' = Append(cycles, started.cycle)
                /\ net' = (net \ {r}) \cup started.reqs
                /\ panels' = started.panels
                /\ Show(k, IF outcome = "rejected"
                           THEN << <<"success", "Settings saved">>,
                                   <<"error", "Failed to save settings">> >>
                           ELSE << <<"success", "Settings saved">> >>)
                /\ calls' = [calls EXCEPT
                               ![k].answer = resp,
                               ![k].cycle = Len(cycles) + 1,
                               ![k].pc = IF outcome = "pending" THEN "refresh" ELSE "done",
                               ![k].ret = CASE outcome = "pending" -> "none"
                                            [] outcome = "resolved" -> "true"
                                            [] OTHER -> "false"]
           ELSE /\ Show(k, << <<"error", "Failed to save settings">> >>)
                /\ net' = net \ {r}
                /\ calls' = [calls EXCEPT ![k].answer = resp, ![k].pc = "done",
                                          ![k].ret = "false"]
                /\ UNCHANGED << CONFIG, cycles, panels >>
        /\ UNCHANGED << state, usageData, filteredEvents, ollamaData, controls, form,
                        timers, phase, unhandled, clock, dom, ticks >>

\* ---------------------------------------------------------- usage filters
\* e => e.provider === provider
ByProvider(events, provider) ==
  LET Match(e) == e.provider = provider
  IN  SeqFilter(events, Match)

\* the serialized event searched as it is written, without toLowerCase()
ByQueryCaseSensitive(events, query) ==
  LET Match(e) == Includes(StringifyEvent(e), query)
  IN  SeqFilter(events, Match)

\* e => JSON.stringify(e).toLowerCase().includes(query)
ByQuery(events, query) ==
  LET Match(e) == Includes(ToLowerCase(StringifyEvent(e)), query)
  IN  SeqFilter(events, Match)

\* what filterUsage assigns to filteredEvents
FilterUsageResult(usage, provider) ==
  IF provider = All THEN EventsOf(usage) ELSE ByProvider(EventsOf(usage), provider)

\* what filterUsageEvents assigns to filteredEvents
FilterUsageEventsResult(usage, provider, search) ==
  LET query == ToLowerCase(search)
      events == IF provider # All THEN ByProvider(EventsOf(usage), provider)
                ELSE EventsOf(usage)
  IN  IF query # <<>> THEN ByQuery(events, query) ELSE events

\* the texts the user may type into the search box
SearchInputs == {<<>>, <<"e", "r", "r">>, <<"O", "P">>}

\* The user picks an option of the provider dropdown and its change handler
\* filterUsage runs; `usageData.events` throws when usageData is null.
filterUsage ==
  \E provider \in {All} \cup Range(UsageProviders(usageData, controls.hideInternal)) :
    /\ provider # controls.providerFilter
    /\ controls' = [controls EXCEPT !.providerFilter = provider]
    /\ IF usageData.null
       THEN /\ unhandled' = unhandled \cup {"filterUsage"}
            /\ filteredEvents' = filteredEvents
       ELSE /\ unhandled' = unhandled
            /\ filteredEvents' = FilterUsageResult(usageData, provider)
    /\ UNCHANGED << state, usageData, ollamaData, CONFIG, panels, form, toasts, net,
                    cycles, calls, timers, phase, faults, store, clock, dom, ticks >>

\* The user changes the text of the search box and its input handler
\* filterUsageEvents runs.
filterUsageEvents ==
  \E search \in SearchInputs :
    /\ search # controls.usageSearch
    /\ controls' = [controls EXCEPT !.usageSearch = search]
    /\ IF usageData.null
       THEN /\ unhandled' = unhandled \cup {"filterUsageEvents"}
            /\ filteredEvents' = filteredEvents
       ELSE /\ unhandled' = unhandled
            /\ filteredEvents' = FilterUsageEventsResult(usageData, controls.providerFilter,
                                                         search)
    /\ UNCHANGED << state, usageData, ollamaData, CONFIG, panels, form, toasts, net,
                    cycles, calls, timers, phase, faults, store, clock, dom, ticks >>

\* ------------------------------------------------- the agent-details modal
\* switchAgentTab(tab) up to the lazy loading: every pane hidden and every
\* button unmarked, then the button and the pane of the tab marked and shown
TabSwitched(modal, tab) == [modal EXCEPT !.shownTabs = {tab}, !.activeTabs = {tab}]

\* viewAgentDetails(agentId) up to `await loadSessions()`: the header filled,
\* the modal opened, switchAgentTab('overview')
DetailsViewed(modal, agentId) ==
  TabSwitched([modal EXCEPT !.detailsId = agentId, !.active = TRUE], "overview")

SessionsOfDetails ==
  Req("loadSessions", "viewAgentDetails", 0, 0, "GET", PathOf("loadSessions"))

\* the loader switchAgentTab starts for a tab, "" for none
TabLoader(tab) ==
  CASE tab = "notes" -> "loadAgentNotes"
    [] tab = "memory" -> "loadAgentMemory"
    [] tab = "logs" -> "loadAgentLogs"
    [] OTHER -> ""

\* the path the loader of a tab fetches, without its query
TabPath(tab) ==
  CASE tab = "notes" -> <<"proxy", "openclaw", "notes">>
    [] tab = "memory" -> <<"proxy", "memory", "search">>
    [] OTHER -> <<"proxy", "logs">>

\* The user clicks the Details button of an agent card: viewAgentDetails up
\* to its await.
viewAgentDetails ==
  \E agentId \in AgentRegistry :
    /\ phase = "running"
    /\ Cardinality(net) < MaxInFlight
    /\ dom' = [dom EXCEPT !.modal = DetailsViewed(@, agentId)]
    /\ net' = net \cup {SessionsOfDetails}
    /\ UNCHANGED << state, usageData, filteredEvents, ollamaData, CONFIG, panels,
                    controls, form, toasts, cycles, calls, timers, phase, unhandled,
                    faults, store, clock, ticks >>

\* switchAgentTab(tab), called by the tab's button in the open modal: the
\* tab is switched to, then its data is loaded; for the sessions tab that is
\* viewAgentDetails(agentModalCurrentId), which runs up to its await before
\* switchAgentTab returns.
switchAgentTabTo(tab) ==
  /\ phase = "running"
  /\ dom.modal.active
  /\ Cardinality(net) < MaxInFlight
  /\ LET switched == TabSwitched(dom.modal, tab)
     IN  IF tab = "sessions"
         THEN /\ dom' = [dom EXCEPT !.modal = DetailsViewed(switched, dom.modal.detailsId)]
              /\ net' = net \cup {SessionsOfDetails}
         ELSE IF TabLoader(tab) # ""
         THEN /\ dom' = [dom EXCEPT !.modal = [switched EXCEPT !.panes[tab] = "loading"]]
              /\ net' = net \cup {Req(TabLoader(tab), "switchAgentTab", 0, 0, "GET",
                                      TabPath(tab))}
         ELSE /\ dom' = [dom EXCEPT !.modal = switched]
              /\ net' = net
  /\ UNCHANGED << state, usageData, filteredEvents, ollamaData, CONFIG, panels,
                  controls, form, toasts, cycles, calls, timers, phase, unhandled,
                  faults, store, clock, ticks >>

switchAgentTab == \E tab \in AgentTabs : switchAgentTabTo(tab)

\* loadAgentNotes, loadAgentMemory and loadAgentLogs, from `await fetch` on:
\* the list, the empty-state text (for the logs, no line), or the failure
\* text when the fetch, response.json() or the read of a null body threw.
loadAgentPane ==
  \E r \in net, resp \in LoadResponses, tab \in ModalPanels :
    /\ TabLoader(tab) # "" /\ r.site = TabLoader(tab)
    /\ WithinFaults(resp)
    /\ CountFault(r, resp)
    /\ dom' = [dom EXCEPT !.modal.panes[tab] =
                  CASE Outcome(resp) = "ok" -> "rendered"
                    [] resp.kind = "json" /\ ~resp.body.null -> "empty"
                    [] OTHER -> "failed"]
    /\ net' = net \ {r}
    /\ UNCHANGED << state, usageData, filteredEvents, ollamaData, CONFIG, panels,
                    controls, form, toasts, cycles, calls, timers, phase, unhandled,
                    store, clock, ticks >>

\* ------------------------------------------------------------ page reload
\* The user reloads the idle page after a save: the document and the
\* script start afresh, the settings store keeps what it holds.
Reload ==
  /\ calls # <<>>
  /\ calls[Len(calls)].pc = "done"
  /\ phase = "running"
  /\ state' = [sessions |-> <<>>, cronJobs |-> <<>>, n8nWorkflows |-> <<>>,
               activity |-> <<>>, gatewayOnline |-> "false", n8nOnline |-> "false"]
  /\ usageData' = UsageInitial
  /\ filteredEvents' = <<>>
  /\ ollamaData' = OllamaInitial
  /\ CONFIG' = [scheduleHour |-> DefaultScheduleHour]
  /\ panels' = [p \in Panels |-> "initial"]
  /\ controls' = [autoRefresh |-> TRUE, providerFilter |-> All, usageSearch |-> <<>>,
                  hideInternal |-> FALSE]
  /\ form' = EmptyForm
  /\ toasts' = <<>>
  /\ net' = {}
  /\ cycles' = <<>>
  /\ timers' = {}
  /\ phase' = "loaded"
  /\ unhandled' = {}
  /\ dom' = DomInitial
  /\ ticks' = 0
  /\ UNCHANGED << calls, faults, store, clock >>

\* ------------------------------------------------------ the running page
\* the record of init's refresh cycle once its nine loaders were answered well
InitCycle ==
  [by |-> "init", call |-> 0, promise |-> "rejected",
   st |-> [site \in Range(RefreshCalls) |->
             IF site \in Range(CallsMade(RefreshCalls)) THEN "ok" ELSE "unstarted"],
   got |-> [site \in Range(RefreshCalls) |->
              IF site \in Range(CallsMade(RefreshCalls)) \ {"checkGatewayStatus"}
              THEN 1 ELSE 0]]

\* The page after init() ran against an empty settings store and every
\* request of its refresh cycle was answered well.
InitRunning ==
  /\ state = [sessions |-> SessionData(1), cronJobs |-> CronData(1),
              n8nWorkflows |-> <<>>,
              activity |-> ActivityOf(SessionData(1), 50),
              gatewayOnline |-> "true", n8nOnline |-> "false"]
  /\ usageData = UsagePayload(1)
  /\ filteredEvents = UsagePayload(1).events
  /\ ollamaData = OllamaPayload(1)
  /\ CONFIG = [scheduleHour |-> DefaultScheduleHour]
  /\ panels = [p \in Panels |->
                 CASE p = "n8n-workflows" -> "initial"
                   [] p \in {"gateway-status", "ollama-local-status"} -> "online"
                   [] OTHER -> "rendered"]
  /\ controls = [autoRefresh |-> TRUE, providerFilter |-> All, usageSearch |-> <<>>,
                 hideInternal |-> FALSE]
  /\ form = Form(<<>>, <<>>, <<>>, NumStr(DefaultScheduleHour), <<>>, <<>>,
                 JSONStringifyPretty(EmptyObject))
  /\ toasts = << Toast("success", "Settings loaded", 0) >>
  /\ net = {}
  /\ cycles = << InitCycle >>
  /\ calls = <<>>
  /\ timers = {}
  /\ phase = "running"
  /\ unhandled = {"refreshAll"}
  /\ faults = <<>>
  /\ store = NoSettings
  /\ clock = ClockStart
  /\ dom = [activeAgents |-> renderAgents(SessionData(1)),
            countdown |-> Countdown(DefaultScheduleHour, ClockStart),
            providersCount |-> 2,
            providerTotals |-> << [provider |-> Gateway, total |-> 5],
                                  [provider |-> OpenAI, total |-> 10] >>,
            barHeights |-> << BarHeight(5, 10), BarHeight(10, 10) >>,
            modal |-> ModalInitial]
  /\ ticks = 0

\* ---------------------------------------------------- the action dispatchers
NextDispatch ==
  \/ EnterSettings(FewForms)
  \/ spawnAgent
  \/ spawnAgentResumes
  \/ SpawnTimer
  \/ quickSpawn
  \/ quickSpawnResumes
  \/ triggerCron
  \/ triggerCronResumes
  \/ toggleWorkflow
  \/ toggleWorkflowResumes
  \/ terminateSession
  \/ terminateSessionResumes
  \/ saveSettings
  \/ saveSettingsResumes
  \/ loadN8nWorkflows
  \/ Loaders

SpecDispatch == InitRunning /\ [][NextDispatch]_vars

\* ------------------------------------------- saving and reloading settings
NextSettings ==
  \/ EnterSettings(FormInputs)
  \/ saveSettings
  \/ saveSettingsResumes
  \/ Reload
  \/ init
  \/ loadSettings

SpecSettings == InitRunning /\ [][NextSettings]_vars

\* ------------------------------------------------------ the schedule hour
\* the hours of the day a settings store may hold as scheduleHour
ScheduleHours == 0..23

\* what the user may type into the schedule-hour input: every hour of the
\* day, and texts that are no hour of the day
HourTexts ==
  {NumStr(h) : h \in ScheduleHours}
    \cup {<<>>, <<"2", "4">>, <<"9", "9">>, <<"-", "1">>, <<"x">>, <<"7", ".", "5">>}

HourForms == {[BaseForm EXCEPT !.hour = t] : t \in HourTexts}

NextHours ==
  \/ EnterSettings(HourForms)
  \/ saveSettings
  \/ saveSettingsResumes
  \/ Reload
  \/ init
  \/ loadSettings

SpecHours == InitRunning /\ [][NextHours]_vars

\* --------------------------------------------- filtering the usage events
NextUsage ==
  \/ filterUsage
  \/ filterUsageEvents
  \/ RefreshTimer
  \/ loadUsage

SpecUsage == InitRunning /\ [][NextUsage]_vars

\* ------------------------------------------ sessions, agents and activity
NextSessions ==
  \/ RefreshTimer
  \/ quickSpawn
  \/ quickSpawnResumes
  \/ loadSessionsFrom(WideResponses)
  \/ loadActivityFrom(WideResponses)

SpecSessions == InitRunning /\ [][NextSessions]_vars

\* ------------------------------------------------------ overlapping loads
\* the snapshots the backend may answer two overlapping refreshes with
RaceVersions == 1..(MaxVersion + 1)

RaceResponses ==
  LoadResponses \cup {Resp("json", Body(FALSE, TRUE, "absent", FALSE, v)) : v \in RaceVersions}

\* The first refresh is the one init starts; the timer starts the second
\* while fetches of the first are still in flight.
NextRace ==
  \/ init
  \/ loadSettings
  \/ RefreshTimerWithin(2 * MaxInFlight)
  \/ loadSessionsFrom(RaceResponses)
  \/ loadCronJobsFrom(RaceResponses)
  \/ loadUsageFrom(RaceResponses)
  \/ loadOllamaFrom(RaceResponses)

SpecRace == Init /\ [][NextRace]_vars

\* ------------------------------------------- sessions and activity, whole
\* A timer-driven refresh runs to its end; the sessions endpoint may answer
\* its two fetches, loadSessions' and loadActivity's, from different
\* snapshots.
NextSnapshot ==
  \/ RefreshTimer
  \/ checkGatewayStatus
  \/ loadSessionsFrom(RaceResponses)
  \/ loadCronJobs
  \/ loadActivityFrom(RaceResponses)
  \/ loadBlogPosts
  \/ loadLearningNotes
  \/ loadScheduleHistory
  \/ loadUsage
  \/ loadOllama

SpecSnapshot == InitRunning /\ [][NextSnapshot]_vars

\* --------------------------------------------------------- n8n workflows
\* Refreshes by the timer and by a save, the one dispatcher that loads the
\* workflows, and init again after a reload of the page.
NextN8n ==
  \/ RefreshTimer
  \/ Loaders
  \/ toggleWorkflow
  \/ toggleWorkflowResumes
  \/ loadN8nWorkflows
  \/ saveSettings
  \/ saveSettingsResumes
  \/ Reload
  \/ init
  \/ loadSettings

SpecN8n == InitRunning /\ [][NextN8n]_vars

\* ------------------------------------------- the agent-details modal, run
NextModal ==
  \/ viewAgentDetails
  \/ switchAgentTab
  \/ loadAgentPane
  \/ loadSessions

SpecModal == InitRunning /\ [][NextModal]_vars

\* --------------------------------------------------- the usage statistics
NextProviders ==
  \/ ToggleHideInternal
  \/ filterUsage
  \/ RefreshTimer
  \/ loadUsageFrom(WideResponses)

SpecProviders == InitRunning /\ [][NextProviders]_vars

\* ------------------------------------------------- the schedule countdown
\* the page loaded against a settings store that holds a schedule hour
InitCountdown ==
  /\ PageLoaded
  /\ store \in {[NoSettings EXCEPT !.scheduleHour = HourNum(h)] : h \in ScheduleHours}

NextCountdown ==
  \/ init
  \/ loadSettings
  \/ updateScheduleCountdown

SpecCountdown == InitCountdown /\ [][NextCountdown]_vars

\* ------------------------------------------------------ the refresh timer
NextTimer ==
  \/ ToggleAutoRefresh
  \/ RefreshTimer
  \/ checkGatewayStatus
  \/ loadSessions
  \/ loadCronJobs

SpecTimer == InitRunning /\ [][NextTimer]_vars

\* ================================================================ claims
\* the loaders of a cycle whose state update C1 names
UpdateLoaders == {"loadSessions", "loadActivity", "loadUsage"}

\* the field a loader assigns
FieldOf(site) ==
  CASE site = "loadSessions" -> state.sessions
    [] site = "loadCronJobs" -> state.cronJobs
    [] site = "loadN8nWorkflows" -> state.n8nWorkflows
    [] site = "loadActivity" -> state.activity
    [] site = "loadUsage" -> usageData
    [] OTHER -> ollamaData

\* the values a loader may assign from the snapshot ver
FreshOf(site, ver) ==
  CASE site = "loadSessions" -> {SessionData(ver)}
    [] site = "loadActivity" -> {ActivityOf(SessionData(ver), t) : t \in ClockValues}
    [] OTHER -> {UsagePayload(ver)}

\* C1: every refresh cycle starts the sessions, activity and usage loaders,
\* and whenever the fetch of one of them succeeds, its field is updated in
\* that step to the fetched value, whatever happened or will happen to the
\* other loaders of the cycle (the cron-jobs fetch failing included).
C1_LoadersIndependent ==
  [][\A c \in DOMAIN cycles' : \A site \in UpdateLoaders :
       IF c \notin DOMAIN cycles
       THEN cycles'[c].st[site] = "inflight"
       ELSE cycles[c].st[site] = "inflight" /\ cycles'[c].st[site] = "ok"
              => FieldOf(site)' \in FreshOf(site, cycles'[c].got[site])]_vars

\* a cycle whose cron-jobs fetch failed and whose sessions, activity and
\* usage fetches succeeded, with the three fields holding the fetched values
C1_Witness ==
  \E c \in DOMAIN cycles :
    /\ cycles[c].st["loadCronJobs"] \in {"transport", "parse"}
    /\ \A site \in UpdateLoaders :
         /\ cycles[c].st[site] = "ok"
         /\ FieldOf(site) \in FreshOf(site, cycles[c].got[site])

\* C2: no promise the application starts rejects without a handler, and
\* every refreshAll started by init or by the refresh timer does not reject.
C2_NoUnhandledRejection ==
  /\ unhandled = {}
  /\ \A c \in DOMAIN cycles :
       cycles[c].by \in {"init", "timer"} => cycles[c].promise # "rejected"

\* C3: the promise of a refreshAll is settled only when every loader the
\* cycle started has settled.
C3_SettlesAfterEveryLoader ==
  \A c \in DOMAIN cycles :
    cycles[c].promise \in {"resolved", "rejected"} => AllSettled(cycles[c])

\* the loaders that assign a field of the state store
FieldLoaders ==
  {"loadSessions", "loadCronJobs", "loadN8nWorkflows", "loadActivity", "loadUsage",
   "loadOllama"}

\* C4: a load whose fetch fails by transport or parse failure leaves the
\* field it loads (state.sessions, state.cronJobs, state.n8nWorkflows,
\* state.activity, usageData, ollamaData) equal to its value before.
C4_FailedLoadKeepsField ==
  [][Len(faults') > Len(faults) =>
       LET f == faults'[Len(faults')]
       IN  \A site \in FieldLoaders :
             f.site = site /\ f.outcome \in {"transport", "parse"}
               => FieldOf(site)' = FieldOf(site)]_vars

\* a sessions fetch has failed and state.sessions still holds the sessions
\* loaded before it
C4_Witness ==
  /\ \E i \in DOMAIN faults :
       faults[i].site = "loadSessions" /\ faults[i].outcome \in {"transport", "parse"}
  /\ state.sessions = SessionData(1)

\* the toasts with the given type that invocation k has shown
ToastsOf(k, type) == {i \in DOMAIN toasts : toasts[i].call = k /\ toasts[i].type = type}

\* a remote call that failed: transport or parse failure (the helper
\* returns null), a null body, an error field, or ok false
Failed(resp) ==
  \/ resp.kind \in {"transport", "parse"}
  \/ resp.kind = "json" /\ (resp.body.null \/ resp.body.error \/ resp.body.ok = "false")

\* C5: a dispatcher whose remote call failed has shown an error notification
\* when it ends.
C5_FailureShowsError ==
  \A k \in DOMAIN calls :
    calls[k].pc = "done" /\ Failed(calls[k].answer) => ToastsOf(k, "error") # {}

\* the collection a dispatcher affects, by the loader that fetches it
Affected(op) ==
  CASE op \in {"spawnAgent", "quickSpawn", "terminateSession"} -> {"loadSessions"}
    [] op = "triggerCron" -> {"loadCronJobs"}
    [] op = "toggleWorkflow" -> {"loadN8nWorkflows"}
    [] OTHER -> {}

\* C6: once a dispatcher's remote call has succeeded, the dispatcher has
\* called or scheduled the loader of the collection it affects, and it has
\* started a full refresh if and only if it is saveSettings.
C6_SuccessRefetches ==
  \A k \in DOMAIN calls :
    calls[k].answer.kind # "none" /\ Nominal(calls[k].answer)
      => /\ Affected(calls[k].op) \subseteq calls[k].refetched
         /\ calls[k].cycle # 0 <=> calls[k].op = "saveSettings"

\* C7: a saveSettings that has returned after its POST was answered: when
\* the answer had ok true, it applied the posted hour to CONFIG, started a
\* refresh, showed the success and no failure notification and returned
\* true; otherwise it started no refresh and returned false.
C7_SaveRefreshesOnOk ==
  \A k \in DOMAIN calls :
    calls[k].op = "saveSettings" /\ calls[k].pc = "done" /\ calls[k].answer.kind # "none"
      => IF calls[k].answer.kind = "json" /\ ResultOk(calls[k].answer.body)
         THEN /\ calls[k].cycle # 0
              /\ CONFIG.scheduleHour = calls[k].posted.scheduleHour.n
              /\ ToastsOf(k, "success") # {}
              /\ ToastsOf(k, "error") = {}
              /\ calls[k].ret = "true"
         ELSE calls[k].cycle = 0 /\ calls[k].ret = "false"

\* what an aborted saveSettings leaves behind in the step that invokes it
SaveAborted ==
  LET k == Len(calls')
  IN  /\ toasts' = Append(toasts, Toast("error", "Invalid providers JSON", k))
      /\ calls'[k].pc = "done"
      /\ calls'[k].ret = "false"
      /\ net' = net
      /\ UNCHANGED << CONFIG, state, usageData, filteredEvents, ollamaData, store >>

\* the step is an invocation of saveSettings
SaveInvoked == Len(calls') = Len(calls) + 1 /\ calls'[Len(calls')].op = "saveSettings"

\* C8 as stated: saveSettings invoked with providers text that JSON.parse
\* rejects aborts with the validation notification, returns false, issues
\* no request and changes neither CONFIG nor the state store.
C8_UnparseableAborts ==
  [][SaveInvoked /\ ~JSONParse(form.providers).ok => SaveAborted]_vars

\* C8 as amended: the same for providers text that is not blank.
C8_InvalidJSONAborts ==
  [][SaveInvoked /\ Trim(form.providers) # <<>> /\ ~JSONParse(form.providers).ok
       => SaveAborted]_vars

\* a saveSettings on invalid providers text has returned false, and no
\* request is in flight
C8_Witness ==
  \E k \in DOMAIN calls :
    /\ calls[k].op = "saveSettings"
    /\ calls[k].arg.providers = ProvInvalid
    /\ calls[k].ret = "false"
    /\ ToastsOf(k, "error") # {}
    /\ net = {}

\* a settings form whose values are what a settings object holds: trimmed
\* strings, an hour 0..23 in decimal, non-blank trimmed feed lines, and the
\* text of a JSON object
WellFormedEntry(e) ==
  /\ \A x \in {e.key, e.url, e.pub, e.notes} : Trim(x) = x
  /\ ParseInt(e.hour) \in 0..23 /\ NumStr(ParseInt(e.hour)) = e.hour
  /\ SeqFilter(MapTrim(SplitLines(e.rss)), NonEmpty) = SplitLines(e.rss)
  /\ JSONParse(e.providers).ok /\ JSONParse(e.providers).val.t = "obj"

\* C9: after a saveSettings whose POST was answered ok, a reload and a
\* loadSettings answered by the store with what was posted, the settings
\* posted and the form shown equal the settings entered, field by field.
C9_RoundTrip ==
  \A k \in DOMAIN calls :
    LET e == calls[k].arg
        posted == calls[k].posted
    IN  /\ calls[k].op = "saveSettings"
        /\ WellFormedEntry(e)
        /\ calls[k].answer.kind = "json" /\ ResultOk(calls[k].answer.body)
        /\ store = OnWire(posted)
        /\ phase = "running"
        /\ toasts = << Toast("success", "Settings loaded", 0) >>
        /\ \A i \in DOMAIN faults : faults[i].site # "loadSettings"
        => /\ posted = Settings(e.key, e.url, e.pub, HourNum(ParseInt(e.hour)), e.notes,
                                SplitLines(e.rss), TRUE, JSONParse(e.providers).val)
           /\ form.key = e.key /\ form.url = e.url /\ form.pub = e.pub
           /\ form.hour = e.hour /\ form.notes = e.notes /\ form.rss = e.rss
           /\ JSONParse(form.providers).ok
           /\ JSONParse(form.providers).val = JSONParse(e.providers).val

\* C10: every event of filteredEvents has the selected provider, unless
\* 'all' is selected, and its JSON text contains the search text, compared
\* in lower case, unless the search text is empty.
C10_ShownEventsPassBoth ==
  \A i \in DOMAIN filteredEvents :
    LET e == filteredEvents[i]
    IN  /\ controls.providerFilter = All \/ e.provider = controls.providerFilter
        /\ \/ controls.usageSearch = <<>>
           \/ Includes(ToLowerCase(StringifyEvent(e)), ToLowerCase(controls.usageSearch))

\* the events, in their order, that have provider P (any provider when P is
\* 'all') and whose JSON text holds Q when both are put in lower case (any
\* text when Q is empty)
C11_Matching(events, P, Q) ==
  LET Passes(e) ==
        /\ P = All \/ e.provider = P
        /\ Q = <<>> \/ Includes(ToLowerCase(StringifyEvent(e)), ToLowerCase(Q))
  IN  SelectSeq(events, Passes)

\* C11: filterUsageEvents, run for the search text Q with provider P
\* selected, sets filteredEvents to exactly the events of usageData.events,
\* in their original order, that have provider P (all when P is 'all') and
\* whose serialized form contains Q case-insensitively (all when Q is empty).
C11_FilterKeepsExactlyMatching ==
  [][controls'.usageSearch # controls.usageSearch /\ ~usageData.null
       => filteredEvents' = C11_Matching(EventsOf(usageData), controls.providerFilter,
                                         controls'.usageSearch)]_vars

\* provider OpenAI and search text 'err' have left only the OpenAI event
\* whose error field reads 'ERR'
C11_Witness ==
  /\ usageData = UsagePayload(1)
  /\ controls.providerFilter = OpenAI
  /\ controls.usageSearch = <<"e", "r", "r">>
  /\ filteredEvents = << Event(3, OpenAI, ModelA, 1, ErrWord) >>

\* the agent id the claim derives for a session: the explicit agentId field,
\* else the second colon-delimited segment of the key, else 'main'
C12_DerivedAgentId(session) ==
  IF session.agentId # "" THEN session.agentId
  ELSE IF Len(session.key) >= 2 /\ session.key[2] # "" THEN session.key[2]
  ELSE "main"

\* C12: the agent cards marked active are those of the registry agents for
\* which state.sessions holds a session under 5 minutes of age whose derived
\* agent id (agentId field, else second key segment, else 'main') is theirs.
C12_ActiveIffRecentSession ==
  dom.activeAgents =
    {a \in AgentRegistry :
       \E i \in DOMAIN state.sessions :
         /\ state.sessions[i].ageMs < 5 * 60 * 1000
         /\ C12_DerivedAgentId(state.sessions[i]) = a}

\* how many elements of the sequence s satisfy Test
C13_Count(s, Test(_)) == Cardinality({i \in DOMAIN s : Test(s[i])})

\* The activity list has at most 20 entries, each made of a fetched session,
\* and holds the greatest timestamps of the fetched sessions: of every
\* timestamp v as many entries as sessions have it, up to the room the
\* sessions with greater timestamps leave among the 20.  now is the time
\* given to a session without updatedAt.
C13_GreatestOf(activity, sessions, now) ==
  LET stamp == [j \in DOMAIN sessions |->
                  IF sessions[j].updatedAt = 0 THEN now ELSE sessions[j].updatedAt]
      stamps == {stamp[j] : j \in DOMAIN sessions}
  IN  /\ Len(activity) <= 20
      /\ \A i \in DOMAIN activity :
           \E j \in DOMAIN sessions :
             /\ activity[i].timestamp = stamp[j]
             /\ activity[i].content.key = sessions[j].key
             /\ activity[i].content.tokens = sessions[j].totalTokens
      /\ \A i \in DOMAIN activity : \A k \in DOMAIN activity :
           i # k => activity[i].content # activity[k].content
                      \/ \E j \in DOMAIN sessions : \E l \in DOMAIN sessions :
                           j # l /\ sessions[j] = sessions[l]
      /\ \A v \in stamps :
           LET Has(x) == x.timestamp = v
               Is(x) == x = v
               Above(x) == x > v
               room == 20 - C13_Count(stamp, Above)
               have == C13_Count(stamp, Is)
           IN  C13_Count(activity, Has) =
                 (IF room <= 0 THEN 0 ELSE IF have <= room THEN have ELSE room)

\* the step in which the loadActivity of refresh cycle c succeeds
C13_ActivityLoaded(c) ==
  /\ c \in DOMAIN cycles
  /\ cycles[c].st["loadActivity"] = "inflight"
  /\ cycles'[c].st["loadActivity"] = "ok"

\* C13 as stated: after a successful loadActivity, state.activity has at
\* most 20 entries, holds the entries with the greatest timestamps of the
\* fetched sessions and is sorted strictly descending by timestamp.
C13_StrictlyDescendingTop20 ==
  [][\A c \in DOMAIN cycles' :
       C13_ActivityLoaded(c)
         => /\ \E now \in ClockValues :
                 C13_GreatestOf(state'.activity,
                                SessionData(cycles'[c].got["loadActivity"]), now)
            /\ \A i \in DOMAIN state'.activity : \A k \in DOMAIN state'.activity :
                 i < k => state'.activity[i].timestamp > state'.activity[k].timestamp]_vars

\* C13 as amended: the same with the list sorted descending by timestamp,
\* entries with equal timestamps allowed next to each other.
C13_DescendingTop20 ==
  [][\A c \in DOMAIN cycles' :
       C13_ActivityLoaded(c)
         => /\ \E now \in ClockValues :
                 C13_GreatestOf(state'.activity,
                                SessionData(cycles'[c].got["loadActivity"]), now)
            /\ \A i \in DOMAIN state'.activity : \A k \in DOMAIN state'.activity :
                 i < k => state'.activity[i].timestamp >= state'.activity[k].timestamp]_vars

\* a loadActivity has succeeded on more than 20 sessions updated in pairs
\* at the same time: the feed holds 20 entries, the second and third of
\* them equal in timestamp
C13_Witness ==
  /\ \E c \in DOMAIN cycles :
       cycles[c].st["loadActivity"] = "ok" /\ cycles[c].got["loadActivity"] = 5
  /\ Len(state.activity) = 20
  /\ state.activity[2].timestamp = state.activity[3].timestamp

\* the two decimal digits of a number below 100
C14_TwoDigits(n) == <<DigitChars[(n \div 10) + 1], DigitChars[(n % 10) + 1]>>

\* HH:MM:SS of the whole seconds from the local time T (milliseconds since
\* midnight) to the earliest instant not before T at which the local time
\* is H:00:00, a day being 86 400 000 milliseconds
C14_Expected(H, T) ==
  LET delta == (H * 3600000 - T) % 86400000
      secs == delta \div 1000
  IN  C14_TwoDigits(secs \div 3600) \o <<":">> \o C14_TwoDigits((secs % 3600) \div 60)
        \o <<":">> \o C14_TwoDigits(secs % 60)

\* C14: whenever the countdown is written with a target hour H in 0..23
\* configured, at local time T, it shows the zero-padded HH:MM:SS of the
\* whole seconds from T to the next instant T' >= T whose local time is
\* H:00:00 (tomorrow's when today's has passed), a delta below 24 hours.
C14_CountdownToNextTarget ==
  [][(clock' # clock \/ dom'.countdown # dom.countdown)
       /\ CONFIG'.scheduleHour \in 0..23
       => dom'.countdown = C14_Expected(CONFIG'.scheduleHour, clock')]_vars

\* one millisecond after 07:00:00 with target hour 7 the countdown has
\* rolled over to tomorrow's target and shows 23:59:59
C14_Witness ==
  /\ CONFIG.scheduleHour = 7
  /\ clock = 7 * 3600000 + 1
  /\ dom.countdown = <<"2", "3", ":", "5", "9", ":", "5", "9">>

\* at the target time itself, to the millisecond, the countdown shows zero
C14_WitnessAtTarget ==
  /\ CONFIG.scheduleHour = 23
  /\ clock = 23 * 3600000
  /\ dom.countdown = <<"0", "0", ":", "0", "0", ":", "0", "0">>

\* C15: a callback of the refresh timer that finds the auto-refresh box
\* unchecked issues no fetch, starts no refresh and changes no field of the
\* state store; one that finds it checked starts a refreshAll, whose loaders
\* issue their fetches.
C15_TickRefreshesIffChecked ==
  [][ticks' = ticks + 1 =>
       IF controls.autoRefresh
       THEN /\ Len(cycles') = Len(cycles) + 1
            /\ cycles'[Len(cycles')].by = "timer"
            /\ net \subseteq net' /\ net' # net
            /\ \A r \in net' \ net : r.by = "refreshAll" /\ r.cyc = Len(cycles')
       ELSE /\ net' = net
            /\ cycles' = cycles
            /\ UNCHANGED << state, usageData, filteredEvents, ollamaData, CONFIG >>]_vars

\* the refresh timer has fired with the box unchecked: no refresh but
\* init's has started and no fetch is in flight
C15_Witness ==
  /\ ticks >= 1
  /\ ~controls.autoRefresh
  /\ Len(cycles) = 1
  /\ net = {}

\* a dispatcher invocation that submitted its request and has returned
C16_Settled(k) == calls[k].pc = "done" /\ calls[k].answer.kind # "none"

\* C16, its safety part: a dispatcher invocation whose remote call settled
\* and which is back at Idle has produced exactly one notification of its
\* outcome, a success or a failure one; it went through a re-fetch exactly
\* when that notification was the success one.
C16_OneOutcomePerDispatch ==
  \A k \in DOMAIN calls :
    C16_Settled(k)
      => /\ Cardinality(ToastsOf(k, "success")) + Cardinality(ToastsOf(k, "error")) = 1
         /\ (calls[k].refetched # {} \/ calls[k].cycle # 0) <=> ToastsOf(k, "success") # {}

\* the path the interface table gives for the request of a dispatcher
C19_TablePath(call) ==
  CASE call.op \in {"spawnAgent", "quickSpawn"} -> <<"proxy", "openclaw", "sessions", "spawn">>
    [] call.op = "triggerCron" -> <<"proxy", "openclaw", "cron", "run">>
    [] call.op = "terminateSession" -> <<"proxy", "openclaw", "sessions", "terminate">>
    [] call.op = "toggleWorkflow" ->
         <<"proxy", "n8n", "workflows", call.arg[1],
           IF call.arg[2] THEN "activate" ELSE "deactivate">>
    [] OTHER -> <<"proxy", "dashboard", "settings">>

\* C19: every mutating request a dispatcher has in flight is a POST to the
\* path the interface table gives for it: sessions/spawn for spawnAgent and
\* quickSpawn, cron/run for triggerCron, sessions/terminate for
\* terminateSession, workflows/{id}/activate or /deactivate for
\* toggleWorkflow according to its activate argument.
C19_PostsTargetInterfaceTable ==
  \A r \in net :
    r.call # 0 /\ r.site = calls[r.call].op
      => r.method = "POST" /\ r.path = C19_TablePath(calls[r.call])

\* the functions that read usageData or ollamaData after a load
C18_Readers == {"renderUsage", "filterUsage", "filterUsageEvents", "renderOllama",
                "showOllamaUpdateModal"}

\* C18: a usage or ollama body of an unexpected shape (JSON null, an object
\* without the expected keys) is treated as no data: whatever bodies the
\* loads have received, no later reader of usageData or ollamaData
\* (renderUsage, filterUsage, filterUsageEvents, renderOllama,
\* showOllamaUpdateModal) has thrown.
C18_UnexpectedBodyIsNoData == unhandled \cap C18_Readers = {}

\* the step in which a loadUsage got its body and ran renderUsage
C20_Rendered ==
  /\ \E r \in net \ net' : r.site = "loadUsage"
  /\ panels'["usage-providers-grid"] = "rendered"

\* the keys of the summary that are listed as providers
C20_Listed(usage, hideInternal) ==
  {k \in Range(SummaryKeys(SummaryOf(usage))) :
     k # TotalRequestsKey /\ ~(hideInternal /\ k = Gateway)}

\* the requests of the first n models of the provider p of the summary
RECURSIVE C20_RequestsUpTo(_, _)
C20_RequestsUpTo(models, n) ==
  IF n = 0 THEN 0 ELSE models[n].requests + C20_RequestsUpTo(models, n - 1)

C20_Total(usage, p) ==
  LET entry == CHOOSE e \in Range(SummaryOf(usage).providers) : e.name = p
  IN  C20_RequestsUpTo(entry.models, Len(entry.models))

\* C20: whenever renderUsage has run on a loaded summary, the providers it
\* lists are the summary's keys but total_requests, and but Gateway when the
\* hide-internal box is checked, each listed once; the provider count shown
\* is the size of that list, and the total of each listed provider is the
\* sum of the requests of its models, a model without requests counting 0.
C20_ProvidersCountedAndSummed ==
  [][C20_Rendered =>
       LET listed == C20_Listed(usageData', controls.hideInternal)
           shown == dom'.providerTotals
       IN  /\ dom'.providersCount = Cardinality(listed)
           /\ Len(shown) = Cardinality(listed)
           /\ {shown[i].provider : i \in DOMAIN shown} = listed
           /\ \A i \in DOMAIN shown :
                shown[i].total = C20_Total(usageData', shown[i].provider)]_vars

\* the summary of the example (Gateway 5, OpenAI 10, total_requests 15) was
\* rendered with the hide-internal box checked: one provider, OpenAI with 10
C20_Witness ==
  /\ controls.hideInternal
  /\ usageData = UsagePayload(1)
  /\ panels["usage-providers-grid"] = "rendered"
  /\ dom.providersCount = 1
  /\ dom.providerTotals = <<[provider |-> OpenAI, total |-> 10]>>

\* the loaders of the collections C17 names
C17_Sites == {"loadSessions", "loadCronJobs", "loadUsage", "loadOllama"}

\* the field a loader assigns
C17_Field(site) ==
  CASE site = "loadSessions" -> state.sessions
    [] site = "loadCronJobs" -> state.cronJobs
    [] site = "loadUsage" -> usageData
    [] OTHER -> ollamaData

\* the collection a well-formed response carries
C17_Payload(site, ver) ==
  CASE site = "loadSessions" -> SessionData(ver)
    [] site = "loadCronJobs" -> CronData(ver)
    [] site = "loadUsage" -> UsagePayload(ver)
    [] OTHER -> OllamaPayload(ver)

\* C17: of the loads of sessions, cron jobs, usage and ollama data that
\* refresh cycles have in flight, none is cancelled or discarded.  A fetch
\* leaves the network only by completing, one at a time, whatever else is in
\* flight; when its response is well-formed the field holds that response's
\* payload right after, also when a later-issued load of the same collection
\* has already completed; and a field changes only when a load of it
\* completes.  So the field ends with the payload that arrived last.
C17_LastResponseWins ==
  [][/\ \A r \in net \ net' :
          r.site \in C17_Sites /\ r.cyc # 0
            => /\ net' = net \ {r}
               /\ cycles[r.cyc].st[r.site] = "inflight"
               /\ cycles'[r.cyc].st[r.site] # "inflight"
               /\ cycles'[r.cyc].st[r.site] = "ok"
                    => C17_Field(r.site)' =
                         C17_Payload(r.site, cycles'[r.cyc].got[r.site])
     /\ \A site \in C17_Sites :
          C17_Field(site)' # C17_Field(site)
            => \E r \in net \ net' : r.site = site]_vars

\* both refresh cycles loaded the sessions, with different snapshots, and
\* state.sessions holds the one the first cycle got although the second
\* cycle's load is complete: the response to the earlier request came last
C17_Witness ==
  /\ Len(cycles) = 2
  /\ cycles[1].st["loadSessions"] = "ok"
  /\ cycles[2].st["loadSessions"] = "ok"
  /\ cycles[1].got["loadSessions"] # cycles[2].got["loadSessions"]
  /\ state.sessions = SessionData(cycles[1].got["loadSessions"])
  /\ state.sessions # SessionData(cycles[2].got["loadSessions"])

\* the fractions of pixels compared
C21_AtLeast(h, px) == h.num >= px * h.den

C21_AtMost(h, px) == h.num <= px * h.den

C21_NoHigher(h, g) == h.num * g.den <= g.num * h.den

\* the bars on the page lie between the floor and the maximum, and a bar of
\* a greater or equal total is at least as high
C21_BoundedMonotone ==
  /\ DOMAIN dom.barHeights = DOMAIN dom.providerTotals
  /\ \A i \in DOMAIN dom.barHeights :
       /\ C21_AtLeast(dom.barHeights[i], BarFloor)
       /\ C21_AtMost(dom.barHeights[i], BarMax)
  /\ \A i, j \in DOMAIN dom.barHeights :
       dom.providerTotals[i].total <= dom.providerTotals[j].total
         => C21_NoHigher(dom.barHeights[i], dom.barHeights[j])

\* provider i of the chart holds the largest total
C21_Largest(i) ==
  \A j \in DOMAIN dom.providerTotals :
    dom.providerTotals[j].total <= dom.providerTotals[i].total

C21_Full(h) == h.num = BarMax * h.den

\* C21 as stated: every bar of the chart is between 20 and 160 pixels high,
\* heights are monotone in the totals, and a provider holding the largest
\* total has a bar of exactly 160 pixels.
C21_LargestBarIsFull ==
  /\ C21_BoundedMonotone
  /\ \A i \in DOMAIN dom.barHeights : C21_Largest(i) => C21_Full(dom.barHeights[i])

\* C21, amended: every bar of the chart is between 20 and 160 pixels high,
\* heights are monotone in the totals, and a provider holding the largest
\* total has a bar of exactly 160 pixels when that total is at least 1; when
\* every total is 0 every bar is 20 pixels high.
C21_LargestBarIsFullUnlessAllZero ==
  /\ C21_BoundedMonotone
  /\ \A i \in DOMAIN dom.barHeights :
       C21_Largest(i)
         => IF dom.providerTotals[i].total >= 1
            THEN C21_Full(dom.barHeights[i])
            ELSE \A j \in DOMAIN dom.barHeights :
                   dom.barHeights[j] = [num |-> BarFloor, den |-> 1]

\* a chart of four bars was drawn: two full ones for the tied largest total,
\* one on the floor for a low total and one of a fraction of a pixel between
C21_Witness ==
  /\ usageData = UsagePayload(5)
  /\ Len(dom.barHeights) = 4
  /\ C21_Full(dom.barHeights[1]) /\ C21_Full(dom.barHeights[4])
  /\ dom.barHeights[2] = [num |-> BarFloor, den |-> 1]
  /\ dom.barHeights[3] = [num |-> 7 * BarMax, den |-> 30]

\* the step in which the health check of refresh cycle c completes
C22_Checked(c) ==
  /\ c \in DOMAIN cycles
  /\ cycles[c].st["checkGatewayStatus"] = "inflight"
  /\ cycles'[c].st["checkGatewayStatus"] # "inflight"

\* C22: when checkGatewayStatus completes, the gateway indicator shows what
\* the new state.gatewayOnline says, and the flag is false whenever the
\* health fetch failed by network or parse failure or the health response
\* reports ok: false, whatever the flag held before.
C22_FailedCheckMarksOffline ==
  [][\A c \in DOMAIN cycles' :
       C22_Checked(c)
         => /\ panels'["gateway-status"] =
                 (IF state'.gatewayOnline = "true" THEN "online" ELSE "offline")
            /\ cycles'[c].st["checkGatewayStatus"] \in {"transport", "parse", "notok"}
                 => state'.gatewayOnline = "false"]_vars

\* C23: whatever the settings store holds and whatever the settings form was
\* given, after any sequence of loadSettings and saveSettings
\* CONFIG.scheduleHour is an integer hour of the day, 0..23.
C23_ScheduleHourIsHourOfDay == CONFIG.scheduleHour \in 0..23

\* the step in which the POST of saveSettings invocation k is answered ok
C24_Saved(k) ==
  /\ k \in DOMAIN calls
  /\ calls[k].op = "saveSettings"
  /\ calls[k].answer.kind = "none"
  /\ calls'[k].answer.kind = "json" /\ ResultOk(calls'[k].answer.body)

\* C24: for every hour H of 0..23 that the schedule-hour input holds when
\* saveSettings is called, a save the server answers with ok has posted
\* scheduleHour = H and sets CONFIG.scheduleHour to H.
C24_SavesEnteredHour ==
  [][\A k \in DOMAIN calls, H \in 0..23 :
       C24_Saved(k) /\ calls[k].arg.hour = NumStr(H)
         => /\ calls[k].posted.scheduleHour = HourNum(H)
            /\ CONFIG'.scheduleHour = H]_vars

\* the step in which saveSettings invocation k fails: it returns at once on
\* providers text that is no JSON, or its POST ends in a transport or parse
\* failure or in a body without ok: true
C26_Failed(k) ==
  /\ calls'[k].op = "saveSettings"
  /\ \/ k \notin DOMAIN calls /\ calls'[k].pc = "done"
     \/ /\ k \in DOMAIN calls
        /\ calls[k].answer.kind = "none"
        /\ calls'[k].answer.kind # "none"
        /\ \/ calls'[k].answer.kind # "json"
           \/ calls'[k].answer.body.null
           \/ calls'[k].answer.body.ok # "true"

\* C26: a saveSettings that fails (invalid providers JSON, a response
\* without ok true, a transport or parse failure of the POST) leaves
\* CONFIG.scheduleHour and every field of the state store unchanged and
\* starts no refresh: no refresh cycle and no fetch is added.
C26_FailedSaveChangesNothing ==
  [][\A k \in DOMAIN calls' :
       C26_Failed(k)
         => /\ CONFIG' = CONFIG
            /\ state' = state
            /\ cycles' = cycles
            /\ net' \subseteq net
            /\ calls'[k].pc = "done" /\ calls'[k].ret = "false"]_vars

\* a save of a form with hour 7 was answered with a body saying ok: false;
\* CONFIG.scheduleHour is still the default and no second refresh exists
C26_Witness ==
  /\ calls # <<>>
  /\ calls[1].op = "saveSettings"
  /\ calls[1].arg.hour = <<"7">>
  /\ calls[1].answer.kind = "json"
  /\ ~calls[1].answer.body.null /\ calls[1].answer.body.ok = "false"
  /\ ~calls[1].answer.body.error
  /\ CONFIG.scheduleHour = DefaultScheduleHour
  /\ Len(cycles) = 1

\* C25: when the latest refresh cycle has completed with its sessions fetch
\* and its activity fetch both successful and no load is in flight,
\* state.activity is the activity list derived from the sessions that
\* state.sessions holds.
C25_ActivityFromSessions ==
  LET c == Len(cycles)
  IN  /\ c > 0
      /\ AllSettled(cycles[c])
      /\ cycles[c].st["loadSessions"] = "ok"
      /\ cycles[c].st["loadActivity"] = "ok"
      /\ net = {}
      => \E t \in ClockValues : state.activity = ActivityOf(state.sessions, t)

\* C27: whenever switchAgentTab(t) has run, for each tab t of the
\* agent-details modal, the pane of t is the one displayed and the button of
\* t is the one marked active.
C27_SwitchedTabIsShown ==
  [][\A t \in AgentTabs :
       switchAgentTabTo(t)
         => dom'.modal.shownTabs = {t} /\ dom'.modal.activeTabs = {t}]_vars

\* the functions that fetch from n8n
C28_N8nSites == {"checkN8nStatus", "loadN8nWorkflows"}

\* request r is the re-fetch of a toggleWorkflow that showed its success
C28_RefetchOfToggle(r, cs, ts) ==
  /\ r.site = "loadN8nWorkflows"
  /\ r.by = "toggleWorkflow"
  /\ r.cyc = 0
  /\ r.call \in DOMAIN cs
  /\ cs[r.call].op = "toggleWorkflow"
  /\ \E i \in DOMAIN ts : ts[i].call = r.call /\ ts[i].type = "success"

\* C28: from the load of the page on, through init and every refresh cycle
\* (by the timer or by a save of the settings), no fetch of checkN8nStatus
\* or loadN8nWorkflows is issued but the re-fetch of a toggleWorkflow that
\* succeeded; state.n8nOnline stays false; state.n8nWorkflows changes only
\* when such a re-fetch completes (and when a reload of the page starts the
\* script afresh), so it stays empty until then, and the step in which
\* toggleWorkflow gets its answer leaves it as it is.
C28_N8nOnlyAfterToggle ==
  [][/\ state'.n8nOnline = "false"
     /\ \A c \in DOMAIN cycles' : DOMAIN cycles'[c].st \cap C28_N8nSites = {}
     /\ \A r \in net' \ net :
          r.site \in C28_N8nSites => C28_RefetchOfToggle(r, calls', toasts')
     /\ state'.n8nWorkflows # state.n8nWorkflows /\ phase' # "loaded"
          => \E r \in net \ net' : C28_RefetchOfToggle(r, calls, toasts)
     /\ (\A k \in DOMAIN calls : calls[k].op # "toggleWorkflow" \/ calls[k].refetched = {})
          => state.n8nWorkflows = <<>>]_vars

\* after init's refresh and a refresh by the timer, a toggleWorkflow
\* succeeded and its re-fetch filled state.n8nWorkflows
C28_Witness ==
  /\ Len(cycles) = 2
  /\ cycles[1].by = "init" /\ cycles[2].by = "timer"
  /\ AllSettled(cycles[2])
  /\ calls # <<>> /\ calls[1].op = "toggleWorkflow"
  /\ calls[1].refetched = {"loadN8nWorkflows"}
  /\ state.n8nWorkflows # <<>>
  /\ state.n8nOnline = "false"

====
